---- MODULE Spec2Model ----
(***************************************************************************)
(* A model of the Photon packet parser of albion-lens (pkg/photon):        *)
(* ParsePacket's command loop over the bytes of a UDP payload, the         *)
(* fragment reassembly store behind fragmentsMu, the cleanup goroutine     *)
(* with its ticker and stop channel, and Close.                            *)
(*                                                                         *)
(* Byte offsets are the code's (0-based); a payload is a sequence of bytes *)
(* and At(data, off) is data[off] of the code.  int is 64 bits wide, so    *)
(* int(uint32) is never negative; int32(uint32) wraps.  An unrecovered     *)
(* panic ends the process: panicked names the operation that panicked and  *)
(* no action is enabled afterwards.                                        *)
(***************************************************************************)
EXTENDS Integers, Sequences, FiniteSets, TLC

\* ------------------------------------------------------------ constants
PhotonHeaderLength == 12
CommandHeaderLength == 12
FragmentHeaderLength == 20
CommandTypeDisconnect == 4
CommandTypeSendReliable == 6
CommandTypeSendUnreliable == 7
CommandTypeSendFragment == 8
MessageTypeOperationRequest == 2
MessageTypeOperationResponse == 3
MessageTypeEventData == 4
MessageTypeInternalRequest == 6
MessageTypeInternalResponse == 7
\* seconds
FragmentTTL == 30
FragmentCleanupInterval == 10

\* event codes and parameter keys (package events)
EventHealthUpdate == 6
EventKilledPlayer == 170
EventDied == 171
EventNewCharacter == 29
EventUpdateMoney == 80
EventUpdateFame == 81
EventUpdateFameDetails == 82
EventNewLoot == 98
EventOtherGrabbedLoot == 275
ParamEventCode == 252
\* handleUpdateFame: totals below this are not fame events
MinTotalFame == 1000000
\* the FixPoint divisor of fame and silver values
FixPoint == 10000

\* ------------------------------------------------------------ bounds
\* packets handed to ParsePacket in one run
MaxPackets == 2
\* the clock stops advancing here (seconds)
MaxTime == 40

\* calls of OnEvent in one run
MaxEvents == 3
\* Service.eventBufferSize, the capacity of eventsChan (WithEventBufferSize)
EventBufferSize == 1
\* changes of the online status in one run
MaxOnline == 1

\* the capture goroutines that call ParsePacket, and who can hold fragmentsMu
Threads == {"t1", "t2"}
Free == "free"
Sweeper == "sweeper"
Reader == "reader"

\* ------------------------------------------------------------ bytes
At(data, off) == data[off + 1]

\* int(binary.BigEndian.Uint32(data[off:])), for the values below 2^31 (the payloads
\* of this model keep the first byte of a length or an offset below 128)
Uint32(data, off) ==
    At(data, off) * 16777216 + At(data, off + 1) * 65536
        + At(data, off + 2) * 256 + At(data, off + 3)

\* int32(binary.BigEndian.Uint32(data[off:])): two's complement
Int32(data, off) ==
    (IF At(data, off) >= 128 THEN At(data, off) - 256 ELSE At(data, off)) * 16777216
        + At(data, off + 1) * 65536 + At(data, off + 2) * 256 + At(data, off + 3)

\* a slice expression data[lo:hi] panics unless 0 <= lo <= hi <= cap; the capacity
\* of the slices of this program is their length
SliceOK(data, lo, hi) == 0 <= lo /\ lo <= hi /\ hi <= Len(data)

Slice(data, lo, hi) == SubSeq(data, lo + 1, hi)

\* make([]byte, n)
MakeBytes(n) == [j \in 1..n |-> 0]

\* copy(dst[off:], src): as many bytes as fit
CopyAt(dst, off, src) ==
    [j \in 1..Len(dst) |->
        IF j > off /\ j - off <= Len(src) THEN src[j - off] ELSE dst[j]]

\* ------------------------------------------------------------ payloads
\* The payloads ParsePacket is given are byte sequences built here: well-formed
\* ones, and ones whose declared lengths disagree with the bytes that follow.
BE32(n) ==
    IF n >= 0
    THEN <<n \div 16777216, (n \div 65536) % 256, (n \div 256) % 256, n % 256>>
    ELSE LET m == (n + 2147483647) + 1
         IN  <<128 + m \div 16777216, (m \div 65536) % 256, (m \div 256) % 256, m % 256>>

Header(flags, count) == <<0, 0, flags, count>> \o BE32(0) \o BE32(0)

Command(type, lengthField, seq, body) ==
    <<type, 0, 0, 0>> \o BE32(lengthField) \o BE32(seq) \o body

FragmentBody(startSeq, total, off, data) ==
    BE32(startSeq) \o BE32(1) \o BE32(0) \o BE32(total) \o BE32(off) \o data

FragmentCommand(startSeq, total, off, data) ==
    Command(CommandTypeSendFragment, CommandHeaderLength + FragmentHeaderLength + Len(data),
            startSeq, FragmentBody(startSeq, total, off, data))

ReliableCommand(body) ==
    Command(CommandTypeSendReliable, CommandHeaderLength + Len(body), 1, body)

\* signal 243, event-data, code 170, an empty parameter table
EventMessage(code) == <<243, MessageTypeEventData, code, 0, 0>>

\* fragments of the 4-byte message 243, 4 (event), 81, 0 under start sequence 1
FragA == FragmentCommand(1, 4, 0, <<243, 4>>)
FragB == FragmentCommand(1, 4, 2, <<81, 0>>)
\* the same key with another declared total: 2 + 4 > 4 but <= 8
FragC == FragmentCommand(1, 8, 2, <<1, 2, 3, 4>>)
\* 3 + 2 > 4: beyond the total it declares itself
FragD == FragmentCommand(1, 4, 3, <<9, 9>>)
\* offset 6 lies beyond a 4-byte buffer
FragE == FragmentCommand(1, 8, 6, <<7, 7>>)
\* total length 0xFFFFFFFF, -1 as an int32
FragF == FragmentCommand(1, -1, 0, <<5>>)
\* a second start sequence number
FragG == FragmentCommand(2, 4, 0, <<243, 4>>)

\* what the capture goroutines feed concurrently
ConcurrentPayloads ==
    { Header(0, 1) \o FragA,
      Header(0, 1) \o FragB,
      Header(0, 1) \o FragC,
      Header(0, 1) \o FragG,
      Header(0, 2) \o FragA \o FragB }

\* what one goroutine is fed: every command type, truncations and bad lengths
SequentialPayloads ==
    { <<>>,
      <<0, 0, 0, 1, 0, 0, 0, 0, 0, 0, 0>>,
      Header(0, 0),
      Header(1, 1) \o ReliableCommand(EventMessage(170)),
      Header(204, 1),
      Header(204, 1) \o BE32(0) \o ReliableCommand(EventMessage(170)),
      Header(0, 1) \o ReliableCommand(EventMessage(170)),
      Header(0, 2) \o ReliableCommand(<<243, MessageTypeOperationRequest, 1, 0, 0>>)
                   \o ReliableCommand(<<243, MessageTypeOperationResponse, 2, 0, 0, 42, 0, 0>>),
      Header(0, 2) \o ReliableCommand(<<243, 131, 1>>) \o ReliableCommand(<<1, 4, 1>>),
      Header(0, 1) \o Command(CommandTypeSendUnreliable, CommandHeaderLength + 9, 1,
                              BE32(7) \o EventMessage(170)),
      Header(0, 1) \o Command(CommandTypeSendUnreliable, CommandHeaderLength + 2, 1, <<243, 4>>),
      Header(0, 2) \o Command(CommandTypeDisconnect, CommandHeaderLength, 1, <<>>)
                   \o ReliableCommand(EventMessage(170)),
      Header(0, 3) \o Command(5, CommandHeaderLength + 1, 1, <<0>>)
                   \o ReliableCommand(EventMessage(170)),
      Header(0, 2) \o Command(5, 0, 1, <<>>),
      Header(0, 1) \o Command(CommandTypeSendReliable, 0, 1, <<>>),
      Header(0, 1) \o Command(CommandTypeSendReliable, CommandHeaderLength + 9, 1, <<243, 4, 1>>),
      Header(0, 2) \o ReliableCommand(EventMessage(170)) \o <<6, 0, 0, 0, 0>>,
      Header(0, 1) \o Command(CommandTypeSendFragment, CommandHeaderLength + 4, 1, BE32(1)),
      Header(0, 2) \o FragA \o FragB,
      Header(0, 2) \o FragA \o FragA,
      Header(0, 2) \o FragA \o FragC,
      Header(0, 2) \o FragA \o FragE,
      Header(0, 1) \o FragD,
      Header(0, 1) \o FragF }

\* ------------------------------------------------------------ events
\* a decoded parameter value is a Go value with its dynamic type
Int16Val(n) == [type |-> "int16", v |-> n]
Int32Val(n) == [type |-> "int32", v |-> n]
Int64Val(n) == [type |-> "int64", v |-> n]
BoolVal(b) == [type |-> "bool", v |-> b]
ByteVal(n) == [type |-> "uint8", v |-> n]
StringVal(str) == [type |-> "string", v |-> str]

\* an event as the parser hands it to OnEvent: the code byte and the parameter table
Event(eventCode, parameters) == [eventCode |-> eventCode, parameters |-> parameters]

\* key :> value pairs of a parameter table
Param1(k1, v1) == [k \in {k1} |-> v1]
Param2(k1, v1, k2, v2) == [k \in {k1, k2} |-> IF k = k1 THEN v1 ELSE v2]
Param3(k1, v1, k2, v2, k3, v3) ==
    [k \in {k1, k2, k3} |-> IF k = k1 THEN v1 ELSE IF k = k2 THEN v2 ELSE v3]

Param5(k1, v1, k2, v2, k3, v3, k4, v4, k5, v5) ==
    [k \in {k1, k2, k3, k4, k5} |->
        IF k = k1 THEN v1 ELSE IF k = k2 THEN v2 ELSE IF k = k3 THEN v3
        ELSE IF k = k4 THEN v4 ELSE v5]

FameSimple(total) == Event(EventUpdateFame, Param1(1, Int64Val(total)))
FameDetailed(total, gained) ==
    Event(EventUpdateFameDetails, Param2(1, Int64Val(total), 2, Int64Val(gained)))
\* code 275 does not fit the code byte: it travels in parameter 252
SilverLoot(raw) ==
    Event(EventOtherGrabbedLoot % 256,
          Param3(ParamEventCode, Int16Val(EventOtherGrabbedLoot), 3, BoolVal(TRUE),
                 5, Int64Val(raw)))
\* the same with the names of the source and of the player at keys 1 and 2
SilverLootFrom(lootedFrom, lootedBy, raw) ==
    Event(EventOtherGrabbedLoot % 256,
          Param5(ParamEventCode, Int16Val(EventOtherGrabbedLoot), 1, StringVal(lootedFrom),
                 2, StringVal(lootedBy), 3, BoolVal(TRUE), 5, Int64Val(raw)))
ItemLoot ==
    Event(EventOtherGrabbedLoot % 256,
          Param3(ParamEventCode, Int16Val(EventOtherGrabbedLoot), 3, BoolVal(FALSE),
                 4, Int32Val(7)))
KilledPlayer == Event(EventKilledPlayer, <<>>)
Died == Event(EventDied, <<>>)
HealthUpdate == Event(EventHealthUpdate, Param1(0, Int64Val(5)))
Leave == Event(1, Param1(0, Int64Val(5)))
\* the balance after a pick-up
UpdateMoney == Event(EventUpdateMoney, Param1(1, Int64Val(50000000)))
\* a code in parameter 252 that does not fit 16 bits: 65536 + 170
WideCode == Event(0, Param1(ParamEventCode, Int32Val(65706)))
\* the code of a kill as an int64 in parameter 252, under another code byte
KilledPlayerInt64 == Event(EventDied, Param1(ParamEventCode, Int64Val(EventKilledPlayer)))

\* the events two capture goroutines hand to OnEvent
ConcurrentEvents ==
    { FameDetailed(3000000, 20000), FameDetailed(5000000, 20000), FameSimple(4000000),
      KilledPlayer, SilverLoot(20000), UpdateMoney, Leave }

\* the events whose notifications fill eventsChan
ServiceEvents == { KilledPlayer, ItemLoot }

\* the events seen in discovery mode: one with a handler, two without
DiscoveryEvents == { KilledPlayer, Leave, Event(1, Param1(7, ByteVal(2))) }

\* the events one goroutine hands to OnEvent, one after the other
SequentialEvents ==
    { FameSimple(500000), FameSimple(1000000), FameSimple(1005000), FameSimple(3000000),
      FameDetailed(1000000, 20000), FameDetailed(3000000, 20000), FameDetailed(3000000, 5000),
      FameDetailed(3000000, -20000), FameDetailed(500000, 20000),
      SilverLoot(20000), SilverLoot(-20000), SilverLootFrom("Monster", "Player1", 50000000),
      ItemLoot, KilledPlayer, Died, HealthUpdate, Leave, UpdateMoney, WideCode,
      KilledPlayerInt64 }

\* ------------------------------------------------------------ state
VARIABLES
    pendingFragments,  \* Parser.pendingFragments: start sequence number -> entry
    fragmentsMu,       \* Parser.fragmentsMu: who holds the lock
    stopCleanup,       \* Parser.stopCleanup: "open" or "closed"
    tickerC,           \* ticker.C of cleanupLoop: 1 when a tick is buffered
    now,               \* time.Now(), seconds
    pcSweeper,         \* where the cleanupLoop goroutine is
    th,                \* per capture goroutine: where it is in ParsePacket, and its locals
    panicked,          \* "none", or the operation whose panic ended the process
    parsed,            \* the number of ParsePacket calls so far
    stats,             \* Stats: the counters
    entryLog,          \* history: one record per entry ever created, by identity
    lastOp,            \* history: the last operation on the store
    h,                 \* AlbionHandler: totalFame and the session counters
    discoveredEvents,  \* AlbionHandler.discoveredEvents: code -> pointer to a DiscoveredEvent
    records,           \* the DiscoveredEvent objects the pointers point to
    discoveryMu,       \* AlbionHandler.discoveryMu: who holds the lock
    ev,                \* per capture goroutine: where it is in OnEvent, and its locals
    eventsChan,        \* Service.eventsChan: the buffered GameEvents
    snapshot,          \* the map the last GetDiscoveredEvents returned to the frontend
    onlineStatusChan,  \* Service.onlineStatusChan: the buffered online flags
    hlog,              \* history: what was handed to OnEvent and to the event callback
    reader,            \* a BufferReader: its data and its offset
    rlog,              \* history: the last BufferReader operation and what it returned
    decoded,           \* history: the last readValue call and what it returned
    svc                \* the Service from New to Stop: its flags, its channels, its goroutines

\* the state of the parser and the state of the handler and the service behind it
parserVars == <<pendingFragments, fragmentsMu, stopCleanup, tickerC, now, pcSweeper, th,
                panicked, parsed, stats, entryLog, lastOp>>
handlerVars == <<h, discoveredEvents, records, discoveryMu, ev, eventsChan, snapshot,
                 onlineStatusChan, hlog>>
\* the state of a BufferReader and of the value decoder
readerVars == <<reader, rlog, decoded>>

vars == <<pendingFragments, fragmentsMu, stopCleanup, tickerC, now, pcSweeper, th, panicked,
          parsed, stats, entryLog, lastOp, h, discoveredEvents, records, discoveryMu, ev,
          eventsChan, snapshot, onlineStatusChan, hlog, reader, rlog, decoded,
          svc>>

\* how often the Service is started and how often Stop returns, and the Capture of a
\* Start that has not happened
MaxStarts == 2
MaxStops == 2
NoCapture == [running |-> FALSE, isOnline |-> FALSE, wg |-> 0]

NoArgs == [startSequenceNumber |-> 0, totalLength |-> 0, fragmentOffset |-> 0, data |-> <<>>]
NoFrag == [totalLength |-> 0, payload |-> <<>>, bytesWritten |-> 0, createdAt |-> 0, id |-> 0]

\* a goroutine outside ParsePacket; inside, the fields are ParsePacket's payload, offset
\* and i, the sub-header fields handleSendFragment read (args), its frag once the entry
\* is out of the store, and the PhotonHandler callbacks made for this payload so far
Idle == [pc |-> "idle", payload |-> <<>>, offset |-> 0, i |-> 0, args |-> NoArgs,
         frag |-> NoFrag, calls |-> <<>>]

\* a goroutine outside OnEvent; inside, the fields are OnEvent's actualEventCode,
\* parameters and handled, the locals of the handler it is in (totalFame and
\* hasDetailedFormat of handleUpdateFame, the amount it adds to the session counter
\* named field and the value it read from it), and the event type it notifies
Waiting == [pc |-> "idle", code |-> 0, params |-> <<>>, handled |-> FALSE, totalFame |-> 0,
            hasDetailedFormat |-> FALSE, field |-> "none", amount |-> 0, read |-> 0,
            eventType |-> "none", index |-> 0]

\* NewStats, NewParser, NewAlbionHandler, backend.New
Init ==
    /\ pendingFragments = [k \in {} |-> NoFrag]
    /\ fragmentsMu = Free
    /\ stopCleanup = "open"
    /\ tickerC = 0
    /\ now = 0
    /\ pcSweeper = "select"
    /\ th = [t \in Threads |-> Idle]
    /\ panicked = "none"
    /\ parsed = 0
    /\ stats = [PacketsReceived |-> 0, PacketsProcessed |-> 0, PacketsEncrypted |-> 0,
                PacketsWithCRC |-> 0, PacketsMalformed |-> 0, FragmentsReceived |-> 0,
                FragmentsCompleted |-> 0, FragmentsExpired |-> 0, EventsDecoded |-> 0,
                RequestsDecoded |-> 0, ResponsesDecoded |-> 0, BytesReceived |-> 0,
                EventsDropped |-> 0]
    /\ entryLog = <<>>
    /\ lastOp = [op |-> "none"]
    /\ h = [discovery |-> FALSE, totalFame |-> 0, sessionFame |-> 0, sessionSilver |-> 0,
             sessionKills |-> 0, sessionDeaths |-> 0, sessionLoot |-> 0]
    /\ discoveredEvents = <<>>
    /\ records = <<>>
    /\ discoveryMu = Free
    /\ ev = [t \in Threads |-> Waiting]
    /\ eventsChan = <<>>
    /\ snapshot = <<>>
    /\ onlineStatusChan = <<>>
    /\ hlog = [events |-> <<>>, notified |-> <<>>, enqueued |-> 0, online |-> <<>>,
               snapshotOf |-> <<>>, packets |-> <<>>]
    /\ reader = [data |-> <<>>, offset |-> 0]
    /\ rlog = [op |-> "none", n |-> 0, err |-> "nil", value |-> 0, count |-> 0]
    /\ decoded = [data |-> <<>>, paramType |-> 0, value |-> [nil |-> TRUE], offset |-> 0,
                  calls |-> 0]
    /\ svc = [running |-> FALSE, stopChan |-> "open", closed |-> {}, caller |-> "idle",
              starts |-> 0, stops |-> 0, panic |-> "none",
              capture |-> [g \in 1..MaxStarts |-> NoCapture],
              updater |-> [g \in 1..MaxStarts |-> "none"],
              checker |-> [g \in 1..MaxStarts |-> "none"],
              device |-> [g \in 1..MaxStarts |-> "none"]]

\* ------------------------------------------------------------ messages
\* decodeOperationRequest: handler.OnRequest(data[0], parameters)
decodeOperationRequest(data) ==
    IF Len(data) < 1 THEN <<>> ELSE <<[kind |-> "request", code |-> At(data, 0)]>>

\* decodeOperationResponse: handler.OnResponse(data[0], returnCode, debugMessage, parameters)
decodeOperationResponse(data) ==
    IF Len(data) < 4 THEN <<>> ELSE <<[kind |-> "response", code |-> At(data, 0)]>>

\* decodeEventData: handler.OnEvent(data[0], parameters)
decodeEventData(data) ==
    IF Len(data) < 1 THEN <<>> ELSE <<[kind |-> "event", code |-> At(data, 0)]>>

\* handleSendReliable(data, length): the handler callbacks it makes, none or one
handleSendReliable(data, length) ==
    IF length < 2 THEN <<>>
    ELSE LET signalByte == At(data, 0)
             messageType == At(data, 1)
             remaining == Slice(data, 2, Len(data))
         IN  IF signalByte # 243 /\ signalByte # 253 THEN <<>>
             ELSE IF messageType > 128 THEN <<>>
             ELSE IF messageType \in {MessageTypeOperationRequest, MessageTypeInternalRequest}
                  THEN decodeOperationRequest(remaining)
             ELSE IF messageType \in {MessageTypeOperationResponse, MessageTypeInternalResponse}
                  THEN decodeOperationResponse(remaining)
             ELSE IF messageType = MessageTypeEventData
                  THEN decodeEventData(remaining)
             ELSE <<>>

\* ------------------------------------------------------------ ParsePacket
Running == panicked = "none"

\* a goroutine's locals after a panic (the process ends with it)
Panicked(l) == [l EXCEPT !.pc = "panic"]

\* a loop that counts the command but stays at its offset
NextCommandSameOffset(l, newOffset) ==
    [l EXCEPT !.pc = "loop", !.i = @ + 1, !.args = NoArgs, !.frag = NoFrag]

\* the loop goes on with the next command, at newOffset
NextCommand(l, newOffset) ==
    [l EXCEPT !.pc = "loop", !.offset = newOffset, !.i = @ + 1, !.args = NoArgs,
              !.frag = NoFrag]

\* ParsePacket up to the command loop: the length check and the header
ParseHeader(p) ==
    IF Len(p) < PhotonHeaderLength
    THEN Idle
    ELSE LET flags == At(p, 2)
             isEncrypted == flags = 1
             isCrcEnabled == flags = 204
         IN  IF isEncrypted
             THEN Idle
             ELSE [Idle EXCEPT !.pc = "loop", !.payload = p,
                               !.offset = IF isCrcEnabled THEN PhotonHeaderLength + 4
                                          ELSE PhotonHeaderLength]

\* the history of the ParsePacket calls that returned: the payload and the handler
\* callbacks made for it
Returned(t, p, calls) ==
    hlog' = [hlog EXCEPT !.packets = Append(@, [by |-> t, payload |-> p, calls |-> calls])]

ParsePacket(t, p) ==
    /\ Running
    /\ th[t].pc = "idle"
    /\ parsed < MaxPackets
    /\ parsed' = parsed + 1
    /\ th' = [th EXCEPT ![t] = ParseHeader(p)]
    /\ IF ParseHeader(p).pc = "idle" THEN Returned(t, p, <<>>) ELSE UNCHANGED hlog
    /\ UNCHANGED <<pendingFragments, fragmentsMu, stopCleanup, tickerC, now, pcSweeper,
                   panicked, stats, entryLog, lastOp>>
    /\ UNCHANGED <<h, discoveredEvents, records, discoveryMu, ev, eventsChan, snapshot,
                   onlineStatusChan>>
    /\ UNCHANGED <<readerVars, svc>>

\* the fields of the command header at offset off of payload p
CommandType(p, off) == At(p, off)
CommandLength(p, off) == Uint32(p, off + 4) - CommandHeaderLength

\* handleSendFragment up to the lock: the fields of the 20-byte sub-header
FragmentArgs(data) ==
    [startSequenceNumber |-> Int32(data, 0),
     totalLength |-> Int32(data, 12),
     fragmentOffset |-> Uint32(data, 16),
     data |-> Slice(data, FragmentHeaderLength, Len(data))]

\* the callbacks a command makes, with the command's index and offset in the payload
Caused(calls, i, off) ==
    [k \in DOMAIN calls |->
        [kind |-> calls[k].kind, code |-> calls[k].code, command |-> i, offset |-> off]]

\* a disconnect command that is skipped like an unknown command
DisconnectSkipped(l) ==
    NextCommand(l, l.offset + CommandHeaderLength + CommandLength(l.payload, l.offset))

\* case CommandTypeDisconnect: return nil
Disconnect(l) == Idle

\* one iteration of ParsePacket's command loop, up to the fragment store's lock
CommandStep(l) ==
    LET p == l.payload
        commandCount == At(p, 3)
        off == l.offset
        body == off + CommandHeaderLength
        commandType == CommandType(p, off)
        commandLength == CommandLength(p, off)
    IN  IF ~(l.i < commandCount /\ off < Len(p))
           \/ off + CommandHeaderLength > Len(p)
           \/ body + commandLength > Len(p)
        THEN Idle
        ELSE IF commandType = CommandTypeDisconnect
        THEN Disconnect(l)
        ELSE IF commandType = CommandTypeSendUnreliable
        THEN IF SliceOK(p, body + 4, body + commandLength)
             THEN [NextCommand(l, body + commandLength) EXCEPT !.calls = @ \o
                      Caused(handleSendReliable(Slice(p, body + 4, body + commandLength),
                                                commandLength - 4), l.i, off)]
             ELSE Panicked(l)
        ELSE IF commandType = CommandTypeSendReliable
        THEN IF SliceOK(p, body, body + commandLength)
             THEN [NextCommand(l, body + commandLength) EXCEPT !.calls = @ \o
                      Caused(handleSendReliable(Slice(p, body, body + commandLength),
                                                commandLength), l.i, off)]
             ELSE Panicked(l)
        ELSE IF commandType = CommandTypeSendFragment
        THEN IF ~SliceOK(p, body, body + commandLength)
             THEN Panicked(l)
             ELSE IF commandLength < FragmentHeaderLength
             THEN NextCommand(l, body + commandLength)
             ELSE [l EXCEPT !.pc = "lock", !.offset = body,
                            !.args = FragmentArgs(Slice(p, body, body + commandLength))]
        ELSE NextCommand(l, body + commandLength)

CommandLoop(t) ==
    /\ Running
    /\ th[t].pc = "loop"
    /\ LET r == CommandStep(th[t])
       IN  IF r.pc = "panic"
           THEN panicked' = "ParsePacket" /\ UNCHANGED th
           ELSE th' = [th EXCEPT ![t] = r] /\ UNCHANGED panicked
    /\ IF CommandStep(th[t]).pc = "idle"
       THEN Returned(t, th[t].payload, th[t].calls)
       ELSE UNCHANGED hlog
    /\ UNCHANGED <<pendingFragments, fragmentsMu, stopCleanup, tickerC, now, pcSweeper,
                   parsed, stats, entryLog, lastOp>>
    /\ UNCHANGED <<h, discoveredEvents, records, discoveryMu, ev, eventsChan, snapshot,
                   onlineStatusChan>>
    /\ UNCHANGED <<readerVars, svc>>

\* ------------------------------------------------------------ the fragment store
Remove(store, keys) == [k \in DOMAIN store \ keys |-> store[k]]
Put(store, key, entry) == [k \in DOMAIN store \cup {key} |-> IF k = key THEN entry ELSE store[k]]

\* a Lock that does not wait for the holder
LockWithoutWaiting(who) == fragmentsMu' = who

\* p.fragmentsMu.Lock()
Lock(who) ==
    /\ fragmentsMu = Free
    /\ fragmentsMu' = who

\* handleSendFragment: p.fragmentsMu.Lock()
FragmentLock(t) ==
    /\ Running
    /\ th[t].pc = "lock"
    /\ Lock(t)
    /\ th' = [th EXCEPT ![t].pc = "locked"]
    /\ UNCHANGED <<pendingFragments, stopCleanup, tickerC, now, pcSweeper, panicked, parsed,
                   stats, entryLog, lastOp>>
    /\ UNCHANGED handlerVars
    /\ UNCHANGED <<readerVars, svc>>

\* the entry takes the total length of every fragment that arrives
GetOrCreateLastWins(store, a, id) ==
    IF a.startSequenceNumber \in DOMAIN store
    THEN [store[a.startSequenceNumber] EXCEPT !.totalLength = a.totalLength]
    ELSE [totalLength |-> a.totalLength, payload |-> MakeBytes(a.totalLength),
          bytesWritten |-> 0, createdAt |-> now, id |-> id]

\* handleSendFragment: the entry the fragment goes to, the one in the store or a new one
GetOrCreate(store, a, id) ==
    IF a.startSequenceNumber \in DOMAIN store
    THEN store[a.startSequenceNumber]
    ELSE [totalLength |-> a.totalLength, payload |-> MakeBytes(a.totalLength),
          bytesWritten |-> 0, createdAt |-> now, id |-> id]

\* handleSendFragment: the bounds check before the copy
Accepted(a, entry) ==
    a.fragmentOffset >= 0 /\ a.fragmentOffset + Len(a.data) <= a.totalLength

\* the positions of the entry's buffer the copy of a fragment writes
Positions(a, entry) ==
    {j \in 0..(Len(entry.payload) - 1) :
        j >= a.fragmentOffset /\ j < a.fragmentOffset + Len(a.data)}

\* handleSendFragment: copy the fragment data and count it
CopyFragment(a, entry) ==
    [entry EXCEPT !.payload = CopyAt(@, a.fragmentOffset, a.data),
                  !.bytesWritten = @ + Len(a.data)]

\* handleSendFragment: the check for completion
IsComplete(entry) == entry.bytesWritten >= entry.totalLength

\* a complete entry is left in the store
StoreAfterKeeping(store, key, entry) == Put(store, key, entry)

\* handleSendFragment: what becomes of the store once the fragment is in entry
StoreAfter(store, key, entry) ==
    IF IsComplete(entry) THEN Remove(store, {key}) ELSE Put(store, key, entry)

\* handleSendFragment from the lock to the unlock: get or create the entry, copy the
\* fragment, and take a complete entry out of the store
FragmentStore(t) ==
    /\ Running
    /\ th[t].pc = "locked"
    /\ LET l == th[t]
           a == l.args
           key == a.startSequenceNumber
           exists == key \in DOMAIN pendingFragments
           entry == GetOrCreate(pendingFragments, a, Len(entryLog) + 1)
           created == IF exists THEN entryLog
                      ELSE Append(entryLog, [key |-> key, status |-> "partial",
                                             deliveries |-> 0, copied |-> 0, written |-> {}])
           log == IF Accepted(a, entry)
                  THEN [created EXCEPT ![entry.id].copied = @ + Len(a.data),
                                       ![entry.id].written = @ \cup Positions(a, entry)]
                  ELSE created
           after == IF Accepted(a, entry) THEN CopyFragment(a, entry) ELSE entry
           done == IsComplete(after)
       IN  IF \/ ~exists /\ a.totalLength < 0
              \/ Accepted(a, entry) /\ a.fragmentOffset > Len(entry.payload)
           THEN \* make([]byte, totalLength) or frag.payload[fragmentOffset:] panics
                /\ panicked' = "ParsePacket"
                /\ UNCHANGED <<pendingFragments, fragmentsMu, th, entryLog, lastOp>>
           ELSE /\ pendingFragments' = StoreAfter(pendingFragments, key, after)
                /\ fragmentsMu' = Free
                /\ entryLog' = IF done THEN [log EXCEPT ![after.id].status = "complete"]
                               ELSE log
                /\ lastOp' = [op |-> "fragment", id |-> after.id, existed |-> exists,
                              declared |-> a.totalLength,
                              accepted |-> Accepted(a, entry), completed |-> done]
                /\ th' = [th EXCEPT ![t] =
                            IF done THEN [l EXCEPT !.pc = "deliver", !.frag = after]
                            ELSE NextCommand(l, l.offset +
                                    CommandLength(l.payload, l.offset - CommandHeaderLength))]
                /\ UNCHANGED panicked
    /\ UNCHANGED <<stopCleanup, tickerC, now, pcSweeper, parsed, stats>>
    /\ UNCHANGED handlerVars
    /\ UNCHANGED <<readerVars, svc>>

\* handleSendFragment after the unlock: the reassembled payload goes to handleSendReliable
Deliver(t) ==
    /\ Running
    /\ th[t].pc = "deliver"
    /\ LET l == th[t]
       IN  /\ th' = [th EXCEPT ![t] =
                  [NextCommand(l, l.offset +
                        CommandLength(l.payload, l.offset - CommandHeaderLength))
                   EXCEPT !.calls = @ \o
                       Caused(handleSendReliable(l.frag.payload, l.frag.totalLength),
                              l.i, l.offset - CommandHeaderLength)]]
           /\ entryLog' = [entryLog EXCEPT ![l.frag.id].deliveries = @ + 1]
    /\ UNCHANGED <<pendingFragments, fragmentsMu, stopCleanup, tickerC, now, pcSweeper,
                   panicked, parsed, stats, lastOp>>
    /\ UNCHANGED handlerVars
    /\ UNCHANGED <<readerVars, svc>>

\* ------------------------------------------------------------ PendingFragmentsCount
\* PendingFragmentsCount: p.fragmentsMu.RLock(), by the one goroutine that watches the
\* parser; a read lock is granted when no writer holds the mutex
RLock ==
    /\ Running
    /\ fragmentsMu = Free
    /\ fragmentsMu' = Reader
    /\ UNCHANGED <<pendingFragments, stopCleanup, tickerC, now, pcSweeper, th, panicked,
                   parsed, stats, entryLog, lastOp>>
    /\ UNCHANGED handlerVars
    /\ UNCHANGED <<readerVars, svc>>

\* PendingFragmentsCount: return len(p.pendingFragments) and the deferred RUnlock
PendingFragmentsCount ==
    /\ Running
    /\ fragmentsMu = Reader
    /\ fragmentsMu' = Free
    /\ lastOp' = [op |-> "count", result |-> Cardinality(DOMAIN pendingFragments)]
    /\ UNCHANGED <<pendingFragments, stopCleanup, tickerC, now, pcSweeper, th, panicked,
                   parsed, stats, entryLog>>
    /\ UNCHANGED handlerVars
    /\ UNCHANGED <<readerVars, svc>>

\* ------------------------------------------------------------ the sweeper
\* time passes: the ticker of cleanupLoop fires every FragmentCleanupInterval, and a
\* tick nobody has taken yet is not queued twice
Tick ==
    /\ Running
    /\ now + FragmentCleanupInterval <= MaxTime
    /\ now' = now + FragmentCleanupInterval
    /\ tickerC' = IF pcSweeper = "stopped" THEN tickerC ELSE 1
    /\ UNCHANGED <<pendingFragments, fragmentsMu, stopCleanup, pcSweeper, th, panicked,
                   parsed, stats, entryLog, lastOp>>
    /\ UNCHANGED handlerVars
    /\ UNCHANGED <<readerVars, svc>>

\* cleanupLoop: case <-ticker.C
CleanupTick ==
    /\ Running
    /\ pcSweeper = "select"
    /\ tickerC = 1
    /\ tickerC' = 0
    /\ pcSweeper' = "lock"
    /\ UNCHANGED <<pendingFragments, fragmentsMu, stopCleanup, now, th, panicked, parsed,
                   stats, entryLog, lastOp>>
    /\ UNCHANGED handlerVars
    /\ UNCHANGED <<readerVars, svc>>

\* the stop case goes round the loop again instead of returning
CleanupStopContinues ==
    /\ Running
    /\ pcSweeper = "select"
    /\ stopCleanup = "closed"
    /\ UNCHANGED vars

\* cleanupLoop: case <-p.stopCleanup: return (and the deferred ticker.Stop())
CleanupStop ==
    /\ Running
    /\ pcSweeper = "select"
    /\ stopCleanup = "closed"
    /\ pcSweeper' = "stopped"
    /\ UNCHANGED <<pendingFragments, fragmentsMu, stopCleanup, tickerC, now, th, panicked,
                   parsed, stats, entryLog, lastOp>>
    /\ UNCHANGED handlerVars
    /\ UNCHANGED <<readerVars, svc>>

\* cleanupExpiredFragments: p.fragmentsMu.Lock()
CleanupLock ==
    /\ Running
    /\ pcSweeper = "lock"
    /\ Lock(Sweeper)
    /\ pcSweeper' = "locked"
    /\ UNCHANGED <<pendingFragments, stopCleanup, tickerC, now, th, panicked, parsed, stats,
                   entryLog, lastOp>>
    /\ UNCHANGED handlerVars
    /\ UNCHANGED <<readerVars, svc>>

\* an entry expires as soon as it is FragmentTTL old
IsExpiredAtTTL(entry, at) == at - entry.createdAt >= FragmentTTL

\* cleanupExpiredFragments: now.Sub(frag.createdAt) > FragmentTTL
IsExpired(entry, at) == at - entry.createdAt > FragmentTTL

\* a sweep that deletes nothing
ExpiredKeysNone(store, at) == {}

\* cleanupExpiredFragments: the keys the loop deletes
ExpiredKeys(store, at) == {k \in DOMAIN store : IsExpired(store[k], at)}

\* cleanupExpiredFragments from the lock to the deferred unlock
cleanupExpiredFragments ==
    /\ Running
    /\ pcSweeper = "locked"
    /\ LET gone == ExpiredKeys(pendingFragments, now)
           goneIds == {pendingFragments[k].id : k \in gone}
       IN  /\ pendingFragments' = Remove(pendingFragments, gone)
           /\ entryLog' = [i \in DOMAIN entryLog |->
                              IF i \in goneIds THEN [entryLog[i] EXCEPT !.status = "expired"]
                              ELSE entryLog[i]]
           /\ lastOp' = [op |-> "sweep", removed |-> goneIds,
                         kept |-> {pendingFragments[k].id : k \in DOMAIN pendingFragments \ gone}]
    /\ fragmentsMu' = Free
    /\ pcSweeper' = "select"
    /\ UNCHANGED <<stopCleanup, tickerC, now, th, panicked, parsed, stats>>
    /\ UNCHANGED handlerVars
    /\ UNCHANGED <<readerVars, svc>>

\* ------------------------------------------------------------ Close
\* Close: close(p.stopCleanup); closing a closed channel panics
Close ==
    /\ Running
    /\ IF stopCleanup = "closed"
       THEN panicked' = "Close" /\ UNCHANGED stopCleanup
       ELSE stopCleanup' = "closed" /\ UNCHANGED panicked
    /\ UNCHANGED <<pendingFragments, fragmentsMu, tickerC, now, pcSweeper, th, parsed, stats,
                   entryLog, lastOp>>
    /\ UNCHANGED handlerVars
    /\ UNCHANGED <<readerVars, svc>>

\* ------------------------------------------------------------ OnEvent
\* int16(v) of a wider integer
Int16(n) == ((n + 32768) % 65536) - 32768

\* getInt64: the value under key when it is an int64, int32, int16 or int, else 0
getInt64(params, key) ==
    IF key \in DOMAIN params /\ params[key].type \in {"int64", "int32", "int16", "int"}
    THEN params[key].v ELSE 0

\* toInt64: as getInt64 of a value, and uint8 and the floats as well
toInt64(val) ==
    IF val.type \in {"int64", "int32", "int16", "int", "uint8", "float32", "float64"}
    THEN val.v ELSE 0

\* getString: the value under key when it is a string, else ""
getString(params, key) ==
    IF key \in DOMAIN params /\ params[key].type = "string" THEN params[key].v ELSE ""

\* getBool: the value under key when it is a bool, else false
getBool(params, key) ==
    IF key \in DOMAIN params /\ params[key].type = "bool" THEN params[key].v ELSE FALSE

\* math.Floor(float64(n) / 10000.0), exact for the values of the model
FloorFixPoint(n) == n \div FixPoint

\* OnEvent: the actual event code is parameter 252 when that is an int16, int32 or int64
ActualEventCode(e) ==
    IF /\ ParamEventCode \in DOMAIN e.parameters
       /\ e.parameters[ParamEventCode].type \in {"int16", "int32", "int64"}
    THEN Int16(e.parameters[ParamEventCode].v)
    ELSE e.eventCode

\* handleUpdateFame up to its first look at h.totalFame: the low-total filter
handleUpdateFame(l) ==
    LET totalFame == getInt64(l.params, 1)
    IN  IF totalFame < MinTotalFame
        THEN [l EXCEPT !.handled = TRUE, !.pc = "discovery"]
        ELSE [l EXCEPT !.handled = TRUE, !.pc = "duplicate", !.totalFame = totalFame,
                       !.eventType = "fame", !.field = "sessionFame",
                       !.hasDetailedFormat = 2 \in DOMAIN l.params,
                       !.amount = IF 2 \in DOMAIN l.params THEN toInt64(l.params[2]) ELSE 0]

\* handleOtherGrabbedLoot up to its update of the session counter
handleOtherGrabbedLoot(l) ==
    IF getBool(l.params, 3)
    THEN [l EXCEPT !.handled = TRUE, !.pc = "read", !.eventType = "silver",
                   !.field = "sessionSilver", !.amount = FloorFixPoint(getInt64(l.params, 5))]
    ELSE [l EXCEPT !.handled = TRUE, !.pc = "read", !.eventType = "loot",
                   !.field = "sessionLoot", !.amount = 1]

\* a switch that surfaces the balance update as a silver event
DispatchSurfacingMoney(l) ==
    IF l.code = EventUpdateMoney
    THEN [l EXCEPT !.handled = TRUE, !.pc = "read", !.eventType = "silver",
                   !.field = "sessionSilver", !.amount = FloorFixPoint(getInt64(l.params, 1))]
    ELSE [l EXCEPT !.pc = "discovery"]

\* OnEvent: the switch on the actual event code
Dispatch(l) ==
    CASE l.code \in {EventUpdateFame, EventUpdateFameDetails} -> handleUpdateFame(l)
      [] l.code \in {EventUpdateMoney, EventHealthUpdate, EventNewCharacter, EventNewLoot} ->
            [l EXCEPT !.handled = TRUE, !.pc = "discovery"]
      [] l.code = EventOtherGrabbedLoot -> handleOtherGrabbedLoot(l)
      [] l.code = EventKilledPlayer ->
            [l EXCEPT !.handled = TRUE, !.pc = "read", !.eventType = "kill",
                      !.field = "sessionKills", !.amount = 1]
      [] l.code = EventDied ->
            [l EXCEPT !.handled = TRUE, !.pc = "read", !.eventType = "death",
                      !.field = "sessionDeaths", !.amount = 1]
      [] OTHER -> [l EXCEPT !.pc = "discovery"]

\* a capture goroutine's parser calls OnEvent with a decoded event
OnEvent(c, e) ==
    /\ Running
    /\ ev[c].pc = "idle"
    /\ Len(hlog.events) < MaxEvents
    /\ LET code == ActualEventCode(e)
       IN  /\ ev' = [ev EXCEPT ![c] = Dispatch([Waiting EXCEPT !.code = code,
                                                               !.params = e.parameters,
                                                               !.index = Len(hlog.events) + 1])]
           /\ hlog' = [hlog EXCEPT !.events = Append(@, [code |-> code, by |-> c,
                                                         eventCode |-> e.eventCode,
                                                         params |-> e.parameters,
                                                         stored |-> h.totalFame])]
    /\ UNCHANGED <<h, discoveredEvents, records, discoveryMu, eventsChan, snapshot>>
    /\ UNCHANGED parserVars
    /\ UNCHANGED onlineStatusChan
    /\ UNCHANGED <<readerVars, svc>>

\* handleUpdateFame: if totalFame == h.totalFame, a duplicate
FameDuplicate(c) ==
    /\ Running
    /\ ev[c].pc = "duplicate"
    /\ ev' = [ev EXCEPT ![c].pc = IF ev[c].totalFame = h.totalFame THEN "discovery"
                                  ELSE "decreased"]
    /\ UNCHANGED <<h, discoveredEvents, records, discoveryMu, eventsChan, snapshot, hlog>>
    /\ UNCHANGED parserVars
    /\ UNCHANGED onlineStatusChan
    /\ UNCHANGED <<readerVars, svc>>

\* handleUpdateFame: if h.totalFame > 0 && totalFame < h.totalFame, ignored; then the
\* detailed format computes the displayed gain from parameter 2
FameDecreased(c) ==
    /\ Running
    /\ ev[c].pc = "decreased"
    /\ LET l == ev[c]
           fameGainedVal == FloorFixPoint(l.amount)
       IN  ev' = [ev EXCEPT ![c] =
                    IF h.totalFame > 0 /\ l.totalFame < h.totalFame
                    THEN [l EXCEPT !.pc = "discovery"]
                    ELSE IF l.hasDetailedFormat
                    THEN IF fameGainedVal > 0
                         THEN [l EXCEPT !.pc = "read", !.amount = fameGainedVal]
                         ELSE [l EXCEPT !.pc = "discovery"]
                    ELSE [l EXCEPT !.pc = "hasTotal"]]
    /\ UNCHANGED <<h, discoveredEvents, records, discoveryMu, eventsChan, snapshot, hlog>>
    /\ UNCHANGED parserVars
    /\ UNCHANGED onlineStatusChan
    /\ UNCHANGED <<readerVars, svc>>

\* handleUpdateFame, simple format: if h.totalFame > 0
FameHasTotal(c) ==
    /\ Running
    /\ ev[c].pc = "hasTotal"
    /\ ev' = [ev EXCEPT ![c].pc = IF h.totalFame > 0 THEN "gained" ELSE "storeTotal"]
    /\ UNCHANGED <<h, discoveredEvents, records, discoveryMu, eventsChan, snapshot, hlog>>
    /\ UNCHANGED parserVars
    /\ UNCHANGED onlineStatusChan
    /\ UNCHANGED <<readerVars, svc>>

\* handleUpdateFame, simple format: gained := totalFame - h.totalFame; if gained > 0
FameGained(c) ==
    /\ Running
    /\ ev[c].pc = "gained"
    /\ LET gained == ev[c].totalFame - h.totalFame
       IN  ev' = [ev EXCEPT ![c] =
                    IF gained > 0
                    THEN [@ EXCEPT !.pc = "read", !.amount = FloorFixPoint(gained)]
                    ELSE [@ EXCEPT !.pc = "storeTotal"]]
    /\ UNCHANGED <<h, discoveredEvents, records, discoveryMu, eventsChan, snapshot, hlog>>
    /\ UNCHANGED parserVars
    /\ UNCHANGED onlineStatusChan
    /\ UNCHANGED <<readerVars, svc>>

\* h.sessionKills++, h.sessionFame += ..., and the like: the read of the counter
CounterRead(c) ==
    /\ Running
    /\ ev[c].pc = "read"
    /\ ev' = [ev EXCEPT ![c].read = h[ev[c].field], ![c].pc = "write"]
    /\ UNCHANGED <<h, discoveredEvents, records, discoveryMu, eventsChan, snapshot, hlog>>
    /\ UNCHANGED parserVars
    /\ UNCHANGED onlineStatusChan
    /\ UNCHANGED <<readerVars, svc>>

\* ... and the write of the sum; the detailed fame format stores the total next
CounterWrite(c) ==
    /\ Running
    /\ ev[c].pc = "write"
    /\ h' = [h EXCEPT ![ev[c].field] = ev[c].read + ev[c].amount]
    /\ ev' = [ev EXCEPT ![c].pc = IF ev[c].eventType = "fame" /\ ev[c].hasDetailedFormat
                                  THEN "storeTotal" ELSE "notify"]
    /\ UNCHANGED <<discoveredEvents, records, discoveryMu, eventsChan, snapshot, hlog>>
    /\ UNCHANGED parserVars
    /\ UNCHANGED onlineStatusChan
    /\ UNCHANGED <<readerVars, svc>>

\* handleUpdateFame: h.totalFame = totalFame, before the notification in the detailed
\* format and at the end of the simple one
FameStoreTotal(c) ==
    /\ Running
    /\ ev[c].pc = "storeTotal"
    /\ h' = [h EXCEPT !.totalFame = ev[c].totalFame]
    /\ ev' = [ev EXCEPT ![c].pc = IF ev[c].hasDetailedFormat THEN "notify" ELSE "discovery"]
    /\ UNCHANGED <<discoveredEvents, records, discoveryMu, eventsChan, snapshot, hlog>>
    /\ UNCHANGED parserVars
    /\ UNCHANGED onlineStatusChan
    /\ UNCHANGED <<readerVars, svc>>

\* Stats.IncrEventsDropped: an atomic add
IncrEventsDropped(st) == [st EXCEPT !.EventsDropped = @ + 1]

\* a callback that drops without counting, as the older Service did
EventCallbackUncounted(ch, st, event) ==
    IF Len(ch) < EventBufferSize
    THEN [eventsChan |-> Append(ch, event), stats |-> st]
    ELSE [eventsChan |-> ch, stats |-> st]

\* the callback Service.Start gives the handler: a send that does not block, and a
\* dropped event is counted
EventCallback(ch, st, event) ==
    IF Len(ch) < EventBufferSize
    THEN [eventsChan |-> Append(ch, event), stats |-> st]
    ELSE [eventsChan |-> ch, stats |-> IncrEventsDropped(st)]

\* the data the handlers pass to notifyEvent: &FameEventData{...}, &SilverEventData{...},
\* and nil for a kill, a death and an item loot
FameEventData(gained, total, session) ==
    [Gained |-> gained, Total |-> total, Session |-> session]
SilverEventData(amount, session) == [Amount |-> amount, Session |-> session]
Nil == [nil |-> TRUE]
EventData(eventType, amount, total, session) ==
    CASE eventType = "fame" -> FameEventData(amount, total, session)
      [] eventType = "silver" -> SilverEventData(amount, session)
      [] OTHER -> Nil

\* notifyEvent with the message and data the handler built: the session value is the
\* counter as it is now
notifyEvent(c) ==
    /\ Running
    /\ ev[c].pc = "notify"
    /\ LET l == ev[c]
           data == [type |-> l.eventType, amount |-> l.amount,
                    total |-> FloorFixPoint(l.totalFame), session |-> h[l.field],
                    index |-> l.index,
                    payload |-> EventData(l.eventType, l.amount, FloorFixPoint(l.totalFame),
                                          h[l.field])]
           after == EventCallback(eventsChan, stats, [Type |-> l.eventType, Data |-> data])
       IN  /\ eventsChan' = after.eventsChan
           /\ stats' = after.stats
           /\ hlog' = [hlog EXCEPT !.notified = Append(@, data),
                                   !.enqueued = @ + Len(after.eventsChan) - Len(eventsChan)]
    /\ ev' = [ev EXCEPT ![c].pc = IF ev[c].eventType = "fame" /\ ~ev[c].hasDetailedFormat
                                  THEN "storeTotal" ELSE "discovery"]
    /\ UNCHANGED <<h, discoveredEvents, records, discoveryMu, snapshot>>
    /\ UNCHANGED <<pendingFragments, fragmentsMu, stopCleanup, tickerC, now, pcSweeper, th,
                   panicked, parsed, entryLog, lastOp>>
    /\ UNCHANGED onlineStatusChan
    /\ UNCHANGED <<readerVars, svc>>

\* capture calls Service's OnlineCallback when traffic appears or stops: the flag goes
\* to onlineStatusChan (capacity 1) and an info event to eventsChan, neither send blocks
OnlineCallback(online) ==
    /\ Running
    /\ Len(hlog.online) < MaxOnline
    /\ online # (hlog.online # <<>> /\ hlog.online[Len(hlog.online)])
    /\ LET data == [type |-> "info", amount |-> 0, total |-> 0, session |-> 0, index |-> 0,
                    payload |-> Nil]
           after == EventCallback(eventsChan, stats, [Type |-> "info", Data |-> data])
       IN  /\ eventsChan' = after.eventsChan
           /\ stats' = after.stats
           /\ hlog' = [hlog EXCEPT !.notified = Append(@, data),
                                   !.online = Append(@, online),
                                   !.enqueued = @ + Len(after.eventsChan) - Len(eventsChan)]
    /\ onlineStatusChan' = IF Len(onlineStatusChan) < 1 THEN Append(onlineStatusChan, online)
                           ELSE onlineStatusChan
    /\ UNCHANGED <<h, discoveredEvents, records, discoveryMu, ev, snapshot>>
    /\ UNCHANGED <<pendingFragments, fragmentsMu, stopCleanup, tickerC, now, pcSweeper, th,
                   panicked, parsed, entryLog, lastOp>>
    /\ UNCHANGED <<readerVars, svc>>

\* the frontend takes an event from Service.Events
Receive ==
    /\ Running
    /\ eventsChan # <<>>
    /\ eventsChan' = Tail(eventsChan)
    /\ UNCHANGED <<h, discoveredEvents, records, discoveryMu, ev, snapshot, hlog>>
    /\ UNCHANGED parserVars
    /\ UNCHANGED onlineStatusChan
    /\ UNCHANGED <<readerVars, svc>>

\* ------------------------------------------------------------ discovery
\* SetDiscoveryMode(true), before the capture starts
SetDiscoveryMode ==
    /\ Running
    /\ hlog.events = <<>>
    /\ ~h.discovery
    /\ h' = [h EXCEPT !.discovery = TRUE]
    /\ UNCHANGED <<discoveredEvents, records, discoveryMu, ev, eventsChan, snapshot, hlog>>
    /\ UNCHANGED parserVars
    /\ UNCHANGED onlineStatusChan
    /\ UNCHANGED <<readerVars, svc>>

\* OnEvent: if h.discovery, track the event; else return
Discovery(c) ==
    /\ Running
    /\ ev[c].pc = "discovery"
    /\ ev' = [ev EXCEPT ![c] = IF h.discovery THEN [@ EXCEPT !.pc = "trackLock"] ELSE Waiting]
    /\ UNCHANGED <<h, discoveredEvents, records, discoveryMu, eventsChan, snapshot, hlog>>
    /\ UNCHANGED parserVars
    /\ UNCHANGED onlineStatusChan
    /\ UNCHANGED <<readerVars, svc>>

\* trackDiscoveredEvent: h.discoveryMu.Lock()
TrackLock(c) ==
    /\ Running
    /\ ev[c].pc = "trackLock"
    /\ discoveryMu = Free
    /\ discoveryMu' = c
    /\ ev' = [ev EXCEPT ![c].pc = "tracking"]
    /\ UNCHANGED <<h, discoveredEvents, records, eventsChan, snapshot, hlog>>
    /\ UNCHANGED parserVars
    /\ UNCHANGED onlineStatusChan
    /\ UNCHANGED <<readerVars, svc>>

\* a record that notes the sight without counting it again
TrackedOnce(event, params, at) ==
    [event EXCEPT !.Count = 1, !.LastSeen = at]

\* trackDiscoveredEvent: the record of the code after this sight of it
Tracked(event, params, at) ==
    [event EXCEPT !.Count = @ + 1,
                  !.LastSeen = at,
                  !.ParamTypes = [k \in DOMAIN event.ParamTypes \cup DOMAIN params |->
                                     IF k \in DOMAIN event.ParamTypes
                                     THEN event.ParamTypes[k] ELSE params[k].type],
                  !.SampleData = [k \in DOMAIN event.SampleData \cup DOMAIN params |->
                                     IF k \in DOMAIN event.ParamTypes
                                     THEN event.SampleData[k] ELSE params[k].v]]

\* trackDiscoveredEvent from the lock to the deferred unlock
trackDiscoveredEvent(c) ==
    /\ Running
    /\ ev[c].pc = "tracking"
    /\ LET code == ev[c].code
           exists == code \in DOMAIN discoveredEvents
           ptr == IF exists THEN discoveredEvents[code] ELSE Len(records) + 1
           event == IF exists THEN records[ptr]
                    ELSE [Code |-> code, Count |-> 0, FirstSeen |-> now, LastSeen |-> 0,
                          SampleData |-> <<>>, ParamTypes |-> <<>>]
           tracked == Tracked(event, ev[c].params, now)
       IN  /\ discoveredEvents' = Put(discoveredEvents, code, ptr)
           /\ records' = IF exists THEN [records EXCEPT ![ptr] = tracked]
                         ELSE Append(records, tracked)
    /\ discoveryMu' = Free
    /\ ev' = [ev EXCEPT ![c] = Waiting]
    /\ UNCHANGED <<h, eventsChan, snapshot, hlog>>
    /\ UNCHANGED parserVars
    /\ UNCHANGED onlineStatusChan
    /\ UNCHANGED <<readerVars, svc>>

\* GetDiscoveredEvents: h.discoveryMu.RLock(), by the frontend
GetDiscoveredEventsRLock ==
    /\ Running
    /\ discoveryMu = Free
    /\ discoveryMu' = Reader
    /\ UNCHANGED <<h, discoveredEvents, records, ev, eventsChan, snapshot, hlog>>
    /\ UNCHANGED parserVars
    /\ UNCHANGED onlineStatusChan
    /\ UNCHANGED <<readerVars, svc>>

\* GetDiscoveredEvents: a new map with the same pointers, and the deferred RUnlock;
\* the history keeps what the records held at that moment
GetDiscoveredEvents ==
    /\ Running
    /\ discoveryMu = Reader
    /\ snapshot' = [k \in DOMAIN discoveredEvents |-> discoveredEvents[k]]
    /\ hlog' = [hlog EXCEPT !.snapshotOf =
                    [k \in DOMAIN discoveredEvents |-> records[discoveredEvents[k]]]]
    /\ discoveryMu' = Free
    /\ UNCHANGED <<h, discoveredEvents, records, ev, eventsChan>>
    /\ UNCHANGED parserVars
    /\ UNCHANGED onlineStatusChan
    /\ UNCHANGED <<readerVars, svc>>

\* the frontend removes an entry from the map it was given
SnapshotDelete ==
    /\ Running
    /\ \E k \in DOMAIN snapshot : snapshot' = Remove(snapshot, {k})
    /\ UNCHANGED <<h, discoveredEvents, records, discoveryMu, ev, eventsChan, hlog>>
    /\ UNCHANGED parserVars
    /\ UNCHANGED onlineStatusChan
    /\ UNCHANGED <<readerVars, svc>>

\* the frontend sets the Count of a record of the map it was given: the map holds
\* pointers, the write goes to the object
SnapshotWrite ==
    /\ Running
    /\ \E k \in DOMAIN snapshot :
          /\ records[snapshot[k]].Count # 0
          /\ records' = [records EXCEPT ![snapshot[k]].Count = 0]
    /\ UNCHANGED <<h, discoveredEvents, discoveryMu, ev, eventsChan, snapshot, hlog>>
    /\ UNCHANGED parserVars
    /\ UNCHANGED onlineStatusChan
    /\ UNCHANGED <<readerVars, svc>>

\* ------------------------------------------------------------ specifications
\* two capture goroutines, the sweeper, a goroutine that reads the count, and the clock,
\* for a parser nobody closes
Next ==
    \/ \E t \in Threads, p \in ConcurrentPayloads : ParsePacket(t, p)
    \/ \E t \in Threads : CommandLoop(t)
    \/ \E t \in Threads : FragmentLock(t)
    \/ \E t \in Threads : FragmentStore(t)
    \/ \E t \in Threads : Deliver(t)
    \/ Tick
    \/ CleanupTick
    \/ CleanupLock
    \/ cleanupExpiredFragments
    \/ RLock
    \/ PendingFragmentsCount

Spec == Init /\ [][Next]_vars

\* one goroutine fed every kind of payload, well-formed or not
NextSequential ==
    \/ \E p \in SequentialPayloads : ParsePacket("t1", p)
    \/ CommandLoop("t1")
    \/ FragmentLock("t1")
    \/ FragmentStore("t1")
    \/ Deliver("t1")

SpecSequential == Init /\ [][NextSequential]_vars

\* one capture goroutine, the sweeper, the clock and the callers of Close
NextClose ==
    \/ \E p \in ConcurrentPayloads : ParsePacket("t1", p)
    \/ CommandLoop("t1")
    \/ FragmentLock("t1")
    \/ FragmentStore("t1")
    \/ Deliver("t1")
    \/ Tick
    \/ CleanupTick
    \/ CleanupLock
    \/ cleanupExpiredFragments
    \/ CleanupStop
    \/ Close

\* The scheduler runs every goroutine that can run.  The sweeper takes the lock in the
\* end although capture goroutines keep taking it (sync.Mutex hands a starving waiter
\* the lock), and a select with several ready cases picks each of them in the end (it
\* chooses at random): strong fairness for both.
FairClose ==
    /\ WF_vars(CommandLoop("t1"))
    /\ WF_vars(FragmentLock("t1"))
    /\ WF_vars(FragmentStore("t1"))
    /\ WF_vars(Deliver("t1"))
    /\ SF_vars(CleanupLock)
    /\ WF_vars(cleanupExpiredFragments)
    /\ SF_vars(CleanupStop)

SpecClose == Init /\ [][NextClose]_vars /\ FairClose

\* two capture goroutines call OnEvent
NextHandler ==
    \/ \E c \in Threads, e \in ConcurrentEvents : OnEvent(c, e)
    \/ \E c \in Threads : FameDuplicate(c)
    \/ \E c \in Threads : FameDecreased(c)
    \/ \E c \in Threads : FameHasTotal(c)
    \/ \E c \in Threads : FameGained(c)
    \/ \E c \in Threads : CounterRead(c)
    \/ \E c \in Threads : CounterWrite(c)
    \/ \E c \in Threads : FameStoreTotal(c)
    \/ \E c \in Threads : notifyEvent(c)
    \/ \E c \in Threads : Discovery(c)

SpecHandler == Init /\ [][NextHandler]_vars

\* the service: two capture goroutines whose events go to eventsChan, the capture's
\* online status callback, and the frontend that takes events from the channel
NextService ==
    \/ \E c \in Threads, e \in ServiceEvents : OnEvent(c, e)
    \/ \E c \in Threads : CounterRead(c)
    \/ \E c \in Threads : CounterWrite(c)
    \/ \E c \in Threads : notifyEvent(c)
    \/ \E c \in Threads : Discovery(c)
    \/ \E online \in BOOLEAN : OnlineCallback(online)
    \/ Receive

SpecService == Init /\ [][NextService]_vars

\* one capture goroutine calls OnEvent with every kind of event
NextHandlerSequential ==
    \/ \E e \in SequentialEvents : OnEvent("t1", e)
    \/ FameDuplicate("t1")
    \/ FameDecreased("t1")
    \/ FameHasTotal("t1")
    \/ FameGained("t1")
    \/ CounterRead("t1")
    \/ CounterWrite("t1")
    \/ FameStoreTotal("t1")
    \/ notifyEvent("t1")
    \/ Discovery("t1")
    \/ Receive

SpecHandlerSequential == Init /\ [][NextHandlerSequential]_vars

\* discovery mode: two capture goroutines and a frontend that takes snapshots
NextDiscovery ==
    \/ SetDiscoveryMode
    \/ \E c \in Threads, e \in DiscoveryEvents : OnEvent(c, e)
    \/ \E c \in Threads : CounterRead(c)
    \/ \E c \in Threads : CounterWrite(c)
    \/ \E c \in Threads : notifyEvent(c)
    \/ \E c \in Threads : Discovery(c)
    \/ \E c \in Threads : TrackLock(c)
    \/ \E c \in Threads : trackDiscoveredEvent(c)
    \/ GetDiscoveredEventsRLock
    \/ GetDiscoveredEvents

SpecDiscovery == Init /\ [][NextDiscovery]_vars

\* discovery mode with a frontend that also changes the snapshots it was given
NextSnapshot ==
    \/ SetDiscoveryMode
    \/ \E e \in DiscoveryEvents : OnEvent("t1", e)
    \/ CounterRead("t1")
    \/ CounterWrite("t1")
    \/ notifyEvent("t1")
    \/ Discovery("t1")
    \/ TrackLock("t1")
    \/ trackDiscoveredEvent("t1")
    \/ GetDiscoveredEventsRLock
    \/ GetDiscoveredEvents
    \/ SnapshotDelete
    \/ SnapshotWrite

SpecSnapshot == Init /\ [][NextSnapshot]_vars

\* ------------------------------------------------------------ BufferReader
\* how many operations one reader is put through, the buffers it is made over (a
\* string prefix of 1 before one byte, of 5 before one byte, of 2 before three), and
\* the counts and positions handed to Skip, ReadBytes and Seek
MaxReads == 3
ReaderBuffers ==
    {<<>>, <<7>>, <<0, 1, 65>>, <<0, 5, 65>>, <<0, 2, 65, 66, 1>>, <<0, 0, 1, 2, 3, 4>>}
SkipCounts == {-1, 0, 1, 2, 7}
SeekPositions == {-1, 0, 2, 7}

ErrBufferUnderflow == "buffer underflow: not enough data to read"

\* what an operation leaves behind: the reader, the value and the error it returned;
\* err is "panic" where the Go runtime stops the operation
Result(r, value, err) == [r |-> r, value |-> value, err |-> err]

Advance(r, n) == [r EXCEPT !.offset = @ + n]

CanRead(r, n) == r.offset + n <= Len(r.data)

Skip(r, n) ==
    IF ~CanRead(r, n) THEN Result(r, 0, ErrBufferUnderflow)
    ELSE Result(Advance(r, n), 0, "nil")

Seek(r, pos) ==
    IF pos < 0 \/ pos > Len(r.data) THEN Result(r, 0, ErrBufferUnderflow)
    ELSE Result([r EXCEPT !.offset = pos], 0, "nil")

\* r.data[r.offset] panics below index 0
ReadByte(r) ==
    IF ~CanRead(r, 1) THEN Result(r, 0, ErrBufferUnderflow)
    ELSE IF r.offset < 0 THEN Result(r, 0, "panic")
    ELSE Result(Advance(r, 1), At(r.data, r.offset), "nil")

\* binary.BigEndian.Uint16(data[off:])
Uint16(data, off) == At(data, off) * 256 + At(data, off + 1)

ReadUint16(r) ==
    IF ~CanRead(r, 2) THEN Result(r, 0, ErrBufferUnderflow)
    ELSE IF ~SliceOK(r.data, r.offset, Len(r.data)) THEN Result(r, 0, "panic")
    ELSE Result(Advance(r, 2), Uint16(r.data, r.offset), "nil")

ReadUint32(r) ==
    IF ~CanRead(r, 4) THEN Result(r, 0, ErrBufferUnderflow)
    ELSE IF ~SliceOK(r.data, r.offset, Len(r.data)) THEN Result(r, 0, "panic")
    ELSE Result(Advance(r, 4), Uint32(r.data, r.offset), "nil")

\* make([]byte, n) panics for a negative n
ReadBytes(r, n) ==
    IF ~CanRead(r, n) THEN Result(r, <<>>, ErrBufferUnderflow)
    ELSE IF n < 0 \/ ~SliceOK(r.data, r.offset, r.offset + n) THEN Result(r, <<>>, "panic")
    ELSE Result(Advance(r, n), Slice(r.data, r.offset, r.offset + n), "nil")

\* the length is read with ReadUint16, which moves the offset, before the body is
\* checked
ReadString(r) ==
    LET length == ReadUint16(r) IN
    IF length.err # "nil" THEN Result(length.r, <<>>, length.err)
    ELSE IF ~CanRead(length.r, length.value)
         THEN Result(length.r, <<>>, ErrBufferUnderflow)
    ELSE Result(Advance(length.r, length.value),
                Slice(length.r.data, length.r.offset, length.r.offset + length.value),
                "nil")

ReadBool(r) ==
    LET val == ReadByte(r) IN
    IF val.err # "nil" THEN Result(val.r, FALSE, val.err)
    ELSE Result(val.r, val.value # 0, "nil")

\* a reader that was made and has not panicked takes another call
Ready == rlog.op # "none" /\ rlog.err # "panic" /\ rlog.count < MaxReads

\* the call op(n) returned res
Called(op, n, res) ==
    /\ reader' = res.r
    /\ rlog' = [op |-> op, n |-> n, err |-> res.err, value |-> res.value,
                count |-> rlog.count + 1]
    /\ UNCHANGED <<parserVars, handlerVars, decoded, svc>>

NewBufferReader(data) ==
    /\ rlog.op = "none"
    /\ reader' = [data |-> data, offset |-> 0]
    /\ rlog' = [op |-> "NewBufferReader", n |-> 0, err |-> "nil", value |-> 0,
                count |-> 0]
    /\ UNCHANGED <<parserVars, handlerVars, decoded, svc>>

ReaderSkip(n) ==
    /\ Ready
    /\ Called("Skip", n, Skip(reader, n))
ReaderSeek(pos) ==
    /\ Ready
    /\ Called("Seek", pos, Seek(reader, pos))
ReaderReadByte ==
    /\ Ready
    /\ Called("ReadByte", 0, ReadByte(reader))
ReaderReadUint16 ==
    /\ Ready
    /\ Called("ReadUint16", 0, ReadUint16(reader))
ReaderReadUint32 ==
    /\ Ready
    /\ Called("ReadUint32", 0, ReadUint32(reader))
ReaderReadBytes(n) ==
    /\ Ready
    /\ Called("ReadBytes", n, ReadBytes(reader, n))
ReaderReadString ==
    /\ Ready
    /\ Called("ReadString", 0, ReadString(reader))
ReaderReadBool ==
    /\ Ready
    /\ Called("ReadBool", 0, ReadBool(reader))

NextReader ==
    \/ \E data \in ReaderBuffers : NewBufferReader(data)
    \/ \E n \in SkipCounts : ReaderSkip(n)
    \/ \E pos \in SeekPositions : ReaderSeek(pos)
    \/ ReaderReadByte
    \/ ReaderReadUint16
    \/ ReaderReadUint32
    \/ \E n \in SkipCounts : ReaderReadBytes(n)
    \/ ReaderReadString
    \/ ReaderReadBool

SpecReader == Init /\ [][NextReader]_vars

\* ------------------------------------------------------------ Protocol16 values
TypeNull == 42
TypeDictionary == 68
TypeByte == 98
TypeHashtable == 104
TypeBoolean == 111

\* the longest run of entry bytes after a dictionary header, and the longest declared
\* dictionary length, and how many values one behaviour decodes
MaxBody == 3
MaxDeclared == 3
MaxDecodes == 1

\* a map[interface{}]interface{} is a function from the keys to the values
MapVal(dict) == [type |-> "map", v |-> dict]

\* what readValue returns: the value and the new offset
Read(value, offset) == [value |-> value, offset |-> offset]

RECURSIVE readValue(_, _, _)
RECURSIVE readEntries(_, _, _, _, _, _, _)

\* the loop over the entries of a dictionary: i counts them, dict is the map so far
readEntries(data, offset, keyType, valueType, i, length, dict) ==
    IF ~(i < length /\ offset < Len(data)) THEN Read(MapVal(dict), offset)
    ELSE
        LET key == IF keyType = 0
                   THEN readValue(data, offset + 1, At(data, offset))
                   ELSE readValue(data, offset, keyType)
        IN  IF valueType = 0 /\ key.offset >= Len(data) THEN Read(MapVal(dict), key.offset)
            ELSE
                LET val == IF valueType = 0
                           THEN readValue(data, key.offset + 1, At(data, key.offset))
                           ELSE readValue(data, key.offset, valueType)
                IN  readEntries(data, val.offset, keyType, valueType, i + 1, length,
                                Put(dict, key.value, val.value))

readValue(data, offset, paramType) ==
    IF offset >= Len(data) THEN Read(Nil, offset)
    ELSE CASE paramType \in {0, TypeNull} -> Read(Nil, offset)
           [] paramType = TypeByte -> Read(ByteVal(At(data, offset)), offset + 1)
           [] paramType = TypeBoolean -> Read(BoolVal(At(data, offset) = 1), offset + 1)
           [] paramType \in {TypeDictionary, TypeHashtable} ->
                IF offset + 4 > Len(data) THEN Read(Nil, offset)
                ELSE readEntries(data, offset + 4, At(data, offset), At(data, offset + 1),
                                 0, Uint16(data, offset + 2), <<>>)
           [] OTHER -> Read(Nil, offset)

\* the bytes handed to readValue: single bytes for the scalar tags, and dictionaries
\* with byte keys, with byte or boolean values or with an inline tag before every value,
\* that declare up to MaxDeclared entries and carry up to MaxBody bytes of them
ScalarBytes == {0, 1, 2, 255}
EntryBytes == {1, 2, TypeByte}
DictionaryHeaders ==
    {<<TypeByte, valueType, 0, n>> : valueType \in {TypeByte, TypeBoolean, 0},
                                     n \in 0..MaxDeclared}
DictionaryBodies == UNION {[1..n -> EntryBytes] : n \in 0..MaxBody}
DecoderInputs ==
    {[data |-> <<b>>, paramType |-> t] :
        b \in ScalarBytes, t \in {0, TypeNull, TypeByte, TypeBoolean, 7}}
    \cup {[data |-> header \o body, paramType |-> t] :
            header \in DictionaryHeaders, body \in DictionaryBodies,
            t \in {TypeDictionary, TypeHashtable}}
    \cup {[data |-> <<TypeByte, TypeByte, 0>>, paramType |-> TypeDictionary]}

\* one call readValue(data, 0, paramType)
DecodeValue(in) ==
    /\ decoded.calls < MaxDecodes
    /\ LET res == readValue(in.data, 0, in.paramType)
       IN  decoded' = [data |-> in.data, paramType |-> in.paramType,
                       value |-> res.value, offset |-> res.offset,
                       calls |-> decoded.calls + 1]
    /\ UNCHANGED <<parserVars, handlerVars, reader, rlog, svc>>

NextDecoder == \E in \in DecoderInputs : DecodeValue(in)

SpecDecoder == Init /\ [][NextDecoder]_vars

\* ------------------------------------------------------------ Service Start and Stop
\* New makes stopChan, eventsChan, statsChan and onlineStatusChan once; every Start
\* makes a handler, a parser and a Capture and starts the goroutines of generation g:
\* the stats updater, the capture goroutine of the device and the online status checker

Alive == svc.panic = "none"

\* a goroutine that panics ends the process
Panics(reason) == svc' = [svc EXCEPT !.panic = reason]

\* ch <- v in a select with a default: a full channel drops the value, a closed one panics
Send(ch, after) ==
    IF ch \in svc.closed THEN Panics("send on closed channel") ELSE svc' = after

\* Service.Start when the service is not running, with a capture that starts
ServiceStart ==
    /\ Alive
    /\ svc.caller = "idle"
    /\ ~svc.running
    /\ svc.starts < MaxStarts
    /\ LET g == svc.starts + 1
       IN  svc' = [svc EXCEPT !.running = TRUE, !.starts = g,
                              !.capture[g] = [running |-> TRUE, isOnline |-> FALSE, wg |-> 0],
                              !.updater[g] = "select",
                              !.device[g] = "open",
                              !.checker[g] = "wait"]
    /\ UNCHANGED <<parserVars, handlerVars, readerVars>>

\* Service.Stop under s.mu: it returns when the service is not running
ServiceStop ==
    /\ Alive
    /\ svc.caller = "idle"
    /\ IF ~svc.running
       THEN /\ svc.stops < MaxStops
            /\ svc' = [svc EXCEPT !.stops = @ + 1]
       ELSE svc' = [svc EXCEPT !.running = FALSE, !.caller = "signal"]
    /\ UNCHANGED <<parserVars, handlerVars, readerVars>>

\* Service.Stop: close(s.stopChan)
StopSignal ==
    /\ Alive
    /\ svc.caller = "signal"
    /\ IF svc.stopChan = "closed" THEN Panics("close of closed channel")
       ELSE svc' = [svc EXCEPT !.stopChan = "closed", !.caller = "capture"]
    /\ UNCHANGED <<parserVars, handlerVars, readerVars>>

\* Capture.Stop of the current Capture up to wg.Wait
captureStop ==
    /\ Alive
    /\ svc.caller = "capture"
    /\ svc' = [svc EXCEPT !.capture[svc.starts].running = FALSE, !.caller = "wait"]
    /\ UNCHANGED <<parserVars, handlerVars, readerVars>>

\* Capture.Stop: wg.Wait returns once the capture goroutines that called wg.Add are done;
\* the parser of this Start is closed next, for the first time
captureStopWait ==
    /\ Alive
    /\ svc.caller = "wait"
    /\ svc.capture[svc.starts].wg = 0
    /\ svc' = [svc EXCEPT !.caller = "eventsChan"]
    /\ UNCHANGED <<parserVars, handlerVars, readerVars>>

\* Service.Stop: close(s.eventsChan), close(s.statsChan), close(s.onlineStatusChan)
StopClose(ch) ==
    /\ Alive
    /\ svc.caller = ch
    /\ IF ch \in svc.closed THEN Panics("close of closed channel")
       ELSE svc' = [svc EXCEPT !.closed = @ \cup {ch},
                               !.caller = CASE ch = "eventsChan" -> "statsChan"
                                            [] ch = "statsChan" -> "onlineStatusChan"
                                            [] ch = "onlineStatusChan" -> "idle",
                               !.stops = IF ch = "onlineStatusChan" THEN @ + 1 ELSE @]
    /\ UNCHANGED <<parserVars, handlerVars, readerVars>>

\* statsUpdater at its select: stopChan is closed and it returns, or the ticker fired
statsUpdater(g) ==
    /\ Alive
    /\ svc.updater[g] = "select"
    /\ \/ svc.stopChan = "closed" /\ svc' = [svc EXCEPT !.updater[g] = "done"]
       \/ svc' = [svc EXCEPT !.updater[g] = "tick"]
    /\ UNCHANGED <<parserVars, handlerVars, readerVars>>

\* statsUpdater after a tick: s.statsChan <- s.parser.Stats
statsUpdaterSend(g) ==
    /\ Alive
    /\ svc.updater[g] = "tick"
    /\ Send("statsChan", [svc EXCEPT !.updater[g] = "select"])
    /\ UNCHANGED <<parserVars, handlerVars, readerVars>>

\* checkOnlineStatus at a tick: it returns when the Capture is stopped, and reports
\* offline when no packet came for five seconds
checkOnlineStatus(g) ==
    /\ Alive
    /\ svc.checker[g] = "wait"
    /\ IF ~svc.capture[g].running THEN svc' = [svc EXCEPT !.checker[g] = "done"]
       ELSE /\ svc.capture[g].isOnline
            /\ svc' = [svc EXCEPT !.capture[g].isOnline = FALSE, !.checker[g] = "status"]
    /\ UNCHANGED <<parserVars, handlerVars, readerVars>>

\* the OnlineCallback Start sets, run by the checker or by the capture goroutine:
\* s.onlineStatusChan <- online
OnlineStatusSend(who, g) ==
    /\ Alive
    /\ svc[who][g] = "status"
    /\ Send("onlineStatusChan", [svc EXCEPT ![who][g] = "info"])
    /\ UNCHANGED <<parserVars, handlerVars, readerVars>>

\* the OnlineCallback: s.eventsChan <- the info event
InfoEventSend(who, g) ==
    /\ Alive
    /\ svc[who][g] = "info"
    /\ Send("eventsChan",
            [svc EXCEPT ![who][g] = IF who = "checker" THEN "wait" ELSE "handler"])
    /\ UNCHANGED <<parserVars, handlerVars, readerVars>>

\* captureOnDevice up to its loop: the device opens and the goroutine joins the wait group
captureOnDevice(g) ==
    /\ Alive
    /\ svc.device[g] = "open"
    /\ svc' = [svc EXCEPT !.capture[g].wg = @ + 1, !.device[g] = "loop"]
    /\ UNCHANGED <<parserVars, handlerVars, readerVars>>

\* captureOnDevice's loop: it ends once the Capture is stopped; else processPacket marks
\* the Capture online, with the callback when it was offline
processPacket(g) ==
    /\ Alive
    /\ svc.device[g] = "loop"
    /\ IF ~svc.capture[g].running
       THEN svc' = [svc EXCEPT !.capture[g].wg = @ - 1, !.device[g] = "done"]
       ELSE svc' = [svc EXCEPT !.capture[g].isOnline = TRUE,
                               !.device[g] = IF svc.capture[g].isOnline THEN "handler"
                                             ELSE "status"]
    /\ UNCHANGED <<parserVars, handlerVars, readerVars>>

\* processPacket's handler call: ParsePacket, and for a packet with a game event the
\* event callback's s.eventsChan <- event
packetHandler(g) ==
    /\ Alive
    /\ svc.device[g] = "handler"
    /\ \/ svc' = [svc EXCEPT !.device[g] = "loop"]
       \/ Send("eventsChan", [svc EXCEPT !.device[g] = "loop"])
    /\ UNCHANGED <<parserVars, handlerVars, readerVars>>

NextLifecycle ==
    \/ ServiceStart
    \/ ServiceStop
    \/ StopSignal
    \/ captureStop
    \/ captureStopWait
    \/ \E ch \in {"eventsChan", "statsChan", "onlineStatusChan"} : StopClose(ch)
    \/ \E g \in 1..MaxStarts : statsUpdater(g)
    \/ \E g \in 1..MaxStarts : statsUpdaterSend(g)
    \/ \E g \in 1..MaxStarts : checkOnlineStatus(g)
    \/ \E who \in {"checker", "device"}, g \in 1..MaxStarts : OnlineStatusSend(who, g)
    \/ \E who \in {"checker", "device"}, g \in 1..MaxStarts : InfoEventSend(who, g)
    \/ \E g \in 1..MaxStarts : captureOnDevice(g)
    \/ \E g \in 1..MaxStarts : processPacket(g)
    \/ \E g \in 1..MaxStarts : packetHandler(g)

SpecLifecycle == Init /\ [][NextLifecycle]_vars

\* ------------------------------------------------------------ claims
\* C1: ParsePacket never panics, whatever the bytes of the payload.
C1_ParsePacketNeverPanics == panicked # "ParsePacket"

\* a step of FragmentStore by goroutine t that did not panic
FragmentStep(t) == th[t].pc = "locked" /\ th'[t].pc # "locked"

\* the entry a fragment with sub-header a goes to, as it is before the fragment is
\* handled: the stored one, or the one its arrival creates
EntryBefore(a) ==
    IF a.startSequenceNumber \in DOMAIN pendingFragments
    THEN pendingFragments[a.startSequenceNumber]
    ELSE [totalLength |-> a.totalLength, payload |-> [j \in 1..a.totalLength |-> 0],
          bytesWritten |-> 0]

\* that entry after goroutine t's step: in the store, or in t's hands once complete
EntryAfter(t, a) ==
    IF a.startSequenceNumber \in DOMAIN pendingFragments'
    THEN pendingFragments'[a.startSequenceNumber]
    ELSE th'[t].frag

\* a step of cleanupExpiredFragments
SweepStep == pcSweeper = "locked" /\ pcSweeper' = "select"

\* C2: as long as an entry stays in the store under its start sequence number, its
\* total length and the size of its buffer do not change, whatever later fragments declare.
C2_TotalLengthFixed ==
    [][\A k \in DOMAIN pendingFragments \cap DOMAIN pendingFragments' :
          /\ pendingFragments'[k].totalLength = pendingFragments[k].totalLength
          /\ Len(pendingFragments'[k].payload) = Len(pendingFragments[k].payload)]_vars

\* a fragment that declared another total length than its entry's has been handled, and
\* the entry is still in the store
C2_Witness ==
    /\ lastOp.op = "fragment"
    /\ lastOp.existed
    /\ \E k \in DOMAIN pendingFragments :
          /\ pendingFragments[k].id = lastOp.id
          /\ pendingFragments[k].totalLength # lastOp.declared

\* C3: a fragment with offset + length beyond the total length of its entry is discarded:
\* no byte of the entry's buffer is written and bytes-written does not grow.
C3_OverflowingFragmentDiscarded ==
    [][\A t \in Threads :
          FragmentStep(t) =>
              LET a == th[t].args
                  before == EntryBefore(a)
                  after == EntryAfter(t, a)
              IN  a.fragmentOffset + Len(a.data) > before.totalLength =>
                      /\ after.payload = before.payload
                      /\ after.bytesWritten = before.bytesWritten]_vars

\* C4: an entry goes from partial to complete (removed, then delivered) or from partial
\* to expired (removed) and nowhere else; its payload is delivered at most once, by the
\* goroutine that removed it on completion, and never after the sweeper evicted it.
C4_Inv ==
    \A i \in DOMAIN entryLog :
        /\ entryLog[i].deliveries <= 1
        /\ entryLog[i].deliveries = 1 => entryLog[i].status = "complete"
        /\ entryLog[i].status = "partial"
              <=> \E k \in DOMAIN pendingFragments : pendingFragments[k].id = i
        /\ entryLog[i].status = "partial" => pendingFragments[entryLog[i].key].id = i

C4_Step ==
    \A i \in DOMAIN entryLog :
        /\ entryLog'[i].status # entryLog[i].status =>
              /\ entryLog[i].status = "partial"
              /\ entryLog'[i].status \in {"complete", "expired"}
        /\ entryLog'[i].deliveries # entryLog[i].deliveries =>
              /\ entryLog[i].status = "complete"
              /\ \E t \in Threads : th[t].pc = "deliver" /\ th[t].frag.id = i

C4_Lifecycle == [](C4_Inv) /\ [][C4_Step]_vars

\* one entry was delivered on completion and another was evicted by the sweeper
C4_Witness ==
    \E i, j \in DOMAIN entryLog :
        /\ entryLog[i].status = "complete" /\ entryLog[i].deliveries = 1
        /\ entryLog[j].status = "expired"

\* C5: the fragment that completes an entry increments fragments_completed by exactly 1
\* and leaves no entry under that start sequence number in the store.
C5_CompletionCounted ==
    [][\A t \in Threads :
          (FragmentStep(t) /\ th'[t].pc = "deliver") =>
              /\ stats'.FragmentsCompleted = stats.FragmentsCompleted + 1
              /\ th[t].args.startSequenceNumber \notin DOMAIN pendingFragments']_vars

\* C6: a sweep removes every entry older than 30 s and increments fragments_expired by
\* one for each of them.
C6_ExpiryCounted ==
    [][SweepStep =>
          LET old == {k \in DOMAIN pendingFragments :
                          now - pendingFragments[k].createdAt > FragmentTTL}
          IN  /\ old \cap DOMAIN pendingFragments' = {}
              /\ stats'.FragmentsExpired = stats.FragmentsExpired + Cardinality(old)]_vars

\* C7: a sweep leaves every entry of age at most 30 s in the store, under the same key
\* and unchanged.
C7_SweepKeepsFresh ==
    [][SweepStep =>
          \A k \in DOMAIN pendingFragments :
              now - pendingFragments[k].createdAt <= FragmentTTL =>
                  /\ k \in DOMAIN pendingFragments'
                  /\ pendingFragments'[k] = pendingFragments[k]]_vars

\* a sweep has just evicted an entry and kept one that is exactly 30 s old
C7_Witness ==
    /\ lastOp.op = "sweep"
    /\ lastOp.removed # {}
    /\ \E k \in DOMAIN pendingFragments :
          /\ pendingFragments[k].id \in lastOp.kept
          /\ now - pendingFragments[k].createdAt = FragmentTTL

\* C8: the store and the entries in it are read and written only by the holder of
\* fragmentsMu, and there is one holder at a time; an entry a goroutine still uses
\* after the unlock is no longer in the store.
C8_Inv ==
    /\ \A t \in Threads : th[t].pc = "locked" <=> fragmentsMu = t
    /\ pcSweeper = "locked" <=> fragmentsMu = Sweeper
    /\ \A t \in Threads :
          th[t].pc = "deliver" =>
              \A k \in DOMAIN pendingFragments : pendingFragments[k].id # th[t].frag.id

C8_Step ==
    pendingFragments' # pendingFragments =>
        \/ \E t \in Threads : fragmentsMu = t /\ FragmentStep(t)
        \/ fragmentsMu = Sweeper /\ SweepStep

C8_LockDiscipline == [](C8_Inv) /\ [][C8_Step]_vars

\* one goroutine is in the critical section while the other and the sweeper wait
C8_Witness ==
    \E t, u \in Threads :
        /\ th[t].pc = "locked"
        /\ th[u].pc = "lock"
        /\ pcSweeper = "lock"
        /\ pendingFragments # <<>>

\* C9: Close may be called any number of times; every call returns normally.
C9_CloseIdempotent == panicked # "Close"

\* C10: once Close was called the sweeper goroutine comes to an end (it returns from
\* cleanupLoop, or the process has ended), and after it returned no sweep happens and
\* its ticker is stopped.
SweeperEnded == pcSweeper = "stopped" \/ ~Running

C10_Step ==
    pcSweeper = "stopped" =>
        /\ pcSweeper' = "stopped"
        /\ tickerC' = tickerC
        /\ \A i \in DOMAIN entryLog :
              entryLog'[i].status = "expired" => entryLog[i].status = "expired"

C10_SweeperStops == ((stopCleanup = "closed") ~> SweeperEnded) /\ [][C10_Step]_vars

\* the parser was closed after a sweep and the sweeper has returned
C10_Witness ==
    /\ stopCleanup = "closed"
    /\ pcSweeper = "stopped"
    /\ lastOp.op = "sweep"
    /\ Running

\* ------------------------------------------------------------ claims about the handler
\* every goroutine is outside OnEvent
Quiescent == \A c \in Threads : ev[c].pc = "idle"

\* the events handed to OnEvent so far with this actual event code
CountEvents(code) == Cardinality({i \in DOMAIN hlog.events : hlog.events[i].code = code})

\* the sum of the amounts of the notifications of one type
RECURSIVE SumAmounts(_, _)
SumAmounts(seq, type) ==
    IF seq = <<>> THEN 0
    ELSE (IF Head(seq).type = type THEN Head(seq).amount ELSE 0) + SumAmounts(Tail(seq), type)

\* an experience-point event of the log, and the new total it carries
IsFameEvent(e) == e.code \in {EventUpdateFame, EventUpdateFameDetails}
NewTotal(e) == getInt64(e.params, 1)

\* C11: no update of a session counter is lost: once N events of a type were processed
\* by concurrent OnEvent calls, kills, deaths and item loots have grown by N, session
\* fame and session silver by the sum of the gains notified.
C11_NoLostUpdate ==
    Quiescent =>
        /\ h.sessionKills = CountEvents(EventKilledPlayer)
        /\ h.sessionDeaths = CountEvents(EventDied)
        /\ h.sessionSilver = SumAmounts(hlog.notified, "silver")
        /\ h.sessionFame = SumAmounts(hlog.notified, "fame")

\* C12: session fame, session silver, kills, deaths and the item-loot count never take
\* a value smaller than an earlier one.
C12_SessionCountersMonotonic ==
    [][/\ h'.sessionFame >= h.sessionFame
       /\ h'.sessionSilver >= h.sessionSilver
       /\ h'.sessionKills >= h.sessionKills
       /\ h'.sessionDeaths >= h.sessionDeaths
       /\ h'.sessionLoot >= h.sessionLoot]_vars

\* C13: no "fame" event is emitted for an experience-point event whose new total is
\* below 1 000 000 or not above the total stored when the event arrived.
C13_NoFameForStaleTotal ==
    \A i \in DOMAIN hlog.notified :
        hlog.notified[i].type = "fame" =>
            LET e == hlog.events[hlog.notified[i].index]
            IN  /\ NewTotal(e) >= MinTotalFame
                /\ NewTotal(e) > e.stored

\* the "fame" notifications emitted for the events at these positions of the log
FameEmittedFor(indices) ==
    {n \in DOMAIN hlog.notified :
        hlog.notified[n].type = "fame" /\ hlog.notified[n].index \in indices}

\* C14: for every pair of successive experience-point events (codes 81/82 in any
\* combination) with identical new totals exactly one "fame" event is emitted.
C14_OneFamePerDuplicatePair ==
    Quiescent =>
        \A i \in 1..(Len(hlog.events) - 1) :
            (/\ IsFameEvent(hlog.events[i])
             /\ IsFameEvent(hlog.events[i + 1])
             /\ NewTotal(hlog.events[i]) = NewTotal(hlog.events[i + 1]))
                => Cardinality(FameEmittedFor({i, i + 1})) = 1

\* C15: the stored experience-point total is never replaced by a smaller value.
C15_TotalFameMonotonic == [][h'.totalFame >= h.totalFame]_vars

\* C16: a "fame" event is emitted, and the session experience counter increased, only
\* for a display gain above 0, in the detailed and in the simple format: every "fame"
\* event carries gained >= 1.
C16_FameGainPositive ==
    \A n \in DOMAIN hlog.notified :
        hlog.notified[n].type = "fame" => hlog.notified[n].amount >= 1

\* the events of the log that carry a negative fixed-point value: a silver pick-up with
\* a negative amount or an experience event with a negative gain
NegativeValueEvents ==
    {i \in DOMAIN hlog.events :
        LET e == hlog.events[i]
        IN  \/ e.code = EventOtherGrabbedLoot /\ getBool(e.params, 3)
                                              /\ getInt64(e.params, 5) < 0
            \/ IsFameEvent(e) /\ 2 \in DOMAIN e.params /\ toInt64(e.params[2]) < 0}

\* C17: a negative fixed-point value is clamped to zero and counted as malformed: the
\* event that carries it leaves the session counters as they were, is notified with an
\* amount of zero if at all, and the malformed counter covers every such event.
C17_NegativeClampedAndCounted ==
    /\ \A c \in Threads :
          ev[c].pc = "write" /\ ev[c].index \in NegativeValueEvents => ev[c].amount = 0
    /\ \A n \in DOMAIN hlog.notified :
          hlog.notified[n].index \in NegativeValueEvents => hlog.notified[n].amount = 0
    /\ Quiescent => stats.PacketsMalformed >= Cardinality(NegativeValueEvents)

\* ------------------------------------------------------------ claims about the service
\* a step in which the handler or the capture hands an event to the service's callback
Handed == Len(hlog'.notified) = Len(hlog.notified) + 1

C18_Inv ==
    /\ Len(hlog.notified) = hlog.enqueued + stats.EventsDropped
    /\ \A c \in Threads : ev[c].pc = "notify" => ENABLED notifyEvent(c)

C18_Step ==
    Handed =>
        IF Len(eventsChan) < EventBufferSize
        THEN /\ Len(eventsChan') = Len(eventsChan) + 1
             /\ stats'.EventsDropped = stats.EventsDropped
        ELSE /\ eventsChan' = eventsChan
             /\ stats'.EventsDropped = stats.EventsDropped + 1

Catalogue == [k \in DOMAIN discoveredEvents |-> records[discoveredEvents[k]]]
SnapshotView == [k \in DOMAIN snapshot |-> records[snapshot[k]]]

\* a step of the frontend on the map it was given: it removes an entry or writes a field
ClientStep ==
    \/ snapshot' # snapshot /\ DOMAIN snapshot' # DOMAIN snapshot /\ discoveryMu = Free
    \/ records' # records /\ ev' = ev

\* C19: GetDiscoveredEvents returns independent copies: a change the caller makes to a
\* returned snapshot does not reach the catalogue or later snapshots, and events
\* processed later do not change a snapshot already returned.
C19_SnapshotIndependent ==
    [][/\ ClientStep => Catalogue' = Catalogue
       /\ ev' # ev => SnapshotView' = SnapshotView]_vars

\* the count the catalogue holds for a code, and the calls with that code still running
CountOf(k) == IF k \in DOMAIN discoveredEvents THEN records[discoveredEvents[k]].Count ELSE 0
InFlight(k) == {c \in Threads : ev[c].pc # "idle" /\ ev[c].code = k}
SeenCodes == {hlog.events[i].code : i \in DOMAIN hlog.events} \cup DOMAIN discoveredEvents

C20_Inv ==
    h.discovery =>
        \A k \in SeenCodes : CountOf(k) = CountEvents(k) - Cardinality(InFlight(k))

C20_Step ==
    \A k \in SeenCodes :
        LET after == IF k \in DOMAIN discoveredEvents'
                     THEN records'[discoveredEvents'[k]].Count ELSE 0
        IN  after = CountOf(k) \/ after = CountOf(k) + 1

\* C20: in discovery mode every sight of an event code raises that code's count by
\* exactly one, so the count is the number of events processed with the code, also
\* when OnEvent runs on two goroutines while the frontend takes snapshots.
C20_CountIsSightings == [](C20_Inv) /\ [][C20_Step]_vars

\* both goroutines have processed an event of one code, the count is 2 and the
\* frontend holds a snapshot
C20_Witness ==
    /\ Quiescent
    /\ snapshot # <<>>
    /\ \E k \in SeenCodes :
          /\ CountOf(k) = 2
          /\ {hlog.events[i].by : i \in {j \in DOMAIN hlog.events : hlog.events[j].code = k}}
                = Threads

\* ------------------------------------------------------------ claims about single events
\* the OnEvent call for the event at position i of the log has returned
Completed(i) ==
    LET c == hlog.events[i].by
    IN  ev[c].pc = "idle" \/ ev[c].index # i

\* the notifications emitted for the event at position i of the log
NotifiedFor(i) == {n \in DOMAIN hlog.notified : hlog.notified[n].index = i}

\* no goroutine other than the caller handles an experience event whose total reaches
\* the total of the event at position i: whatever the interleaving, the stored total
\* stays below it until its own call stores it
AheadOfOthers(i) ==
    \A j \in DOMAIN hlog.events :
        hlog.events[j].by # hlog.events[i].by /\ IsFameEvent(hlog.events[j])
            => NewTotal(hlog.events[j]) < NewTotal(hlog.events[i])

\* a detailed experience event that passes every filter: total at or above the
\* threshold, different from and not below the stored total, and a gain that floors
\* to more than zero
IsDetailedGain(i) ==
    LET e == hlog.events[i]
    IN  /\ IsFameEvent(e)
        /\ 2 \in DOMAIN e.params
        /\ NewTotal(e) >= MinTotalFame
        /\ NewTotal(e) > e.stored
        /\ AheadOfOthers(i)
        /\ FloorFixPoint(toInt64(e.params[2])) > 0

\* the OnEvent call of goroutine c hands its notification to the sink in this step
Notifies(c) == ev[c].pc = "notify" /\ ev'[c].pc # "notify"
LastNotified == hlog'.notified[Len(hlog'.notified)]

C21_Inv ==
    \A i \in DOMAIN hlog.events :
        IsDetailedGain(i) /\ Completed(i) =>
            /\ Cardinality(NotifiedFor(i)) = 1
            /\ \A n \in NotifiedFor(i) :
                  LET d == hlog.notified[n]
                  IN  /\ d.type = "fame"
                      /\ d.amount = FloorFixPoint(toInt64(hlog.events[i].params[2]))
                      /\ d.total = FloorFixPoint(NewTotal(hlog.events[i]))

C21_Step ==
    \A c \in Threads :
        Notifies(c) /\ IsDetailedGain(ev[c].index) =>
            /\ LastNotified.session = ev[c].read + LastNotified.amount
            /\ h'.sessionFame = LastNotified.session

\* C21: a detailed experience event with total T >= 1 000 000 above the stored total
\* and raw gain G with floor(G/10000) > 0 emits exactly one "fame" event with
\* gained = floor(G/10000), total = floor(T/10000) and session = the session fame
\* the handler found plus gained, and the session fame is that value.
C21_DetailedFameEmitted == [](C21_Inv) /\ [][C21_Step]_vars

\* a pick-up of currency by a player: code 275 with the is-currency flag at key 3
IsSilverLoot(e) == e.code = EventOtherGrabbedLoot /\ getBool(e.params, 3)

\* the step in which the OnEvent call of goroutine c writes its session counter
Writes(c) == ev[c].pc = "write" /\ ev'[c].pc # "write"

C22_Inv ==
    \A i \in DOMAIN hlog.events :
        IsSilverLoot(hlog.events[i]) /\ Completed(i) =>
            /\ Cardinality(NotifiedFor(i)) = 1
            /\ \A n \in NotifiedFor(i) :
                  LET d == hlog.notified[n]
                      params == hlog.events[i].params
                  IN  /\ d.type = "silver"
                      /\ d.payload.Amount = FloorFixPoint(getInt64(params, 5))
                      /\ "LootedBy" \in DOMAIN d.payload
                      /\ d.payload.LootedBy = getString(params, 2)
                      /\ "LootedFrom" \in DOMAIN d.payload
                      /\ d.payload.LootedFrom = getString(params, 1)

C22_Step ==
    \A c \in Threads :
        /\ Writes(c) /\ IsSilverLoot(hlog.events[ev[c].index]) =>
              /\ h'.sessionSilver
                    = h.sessionSilver
                        + FloorFixPoint(getInt64(hlog.events[ev[c].index].params, 5))
              /\ h'.sessionLoot = h.sessionLoot
        /\ Notifies(c) /\ IsSilverLoot(hlog.events[ev[c].index]) =>
              /\ LastNotified.payload.Session = h.sessionSilver
              /\ h'.sessionLoot = h.sessionLoot

\* C22: a currency pick-up (code 275, is-currency true, raw amount A) raises session
\* silver by floor(A/10000) and emits exactly one "silver" event with the payload
\* {amount = floor(A/10000), session = the new session silver, lootedBy = the string
\* at key 2, lootedFrom = the string at key 1}; the item-loot count stays as it is.
C22_SilverEmitted == [](C22_Inv) /\ [][C22_Step]_vars

\* the session counters other than the named one keep their values in this step
OthersUnchanged(field) ==
    \A f \in {"sessionFame", "sessionSilver", "sessionKills", "sessionDeaths", "sessionLoot"} :
        f # field => h'[f] = h[f]

\* the counter and the event type of a kill and of a death
CombatField(code) == IF code = EventKilledPlayer THEN "sessionKills" ELSE "sessionDeaths"
CombatType(code) == IF code = EventKilledPlayer THEN "kill" ELSE "death"
IsCombat(e) == e.code \in {EventKilledPlayer, EventDied}

C23_Inv ==
    \A i \in DOMAIN hlog.events :
        IsCombat(hlog.events[i]) /\ Completed(i) =>
            /\ Cardinality(NotifiedFor(i)) = 1
            /\ \A n \in NotifiedFor(i) :
                  hlog.notified[n].type = CombatType(hlog.events[i].code)

C23_Step ==
    \A c \in Threads :
        LET field == CombatField(ev[c].code)
        IN  /\ Writes(c) /\ IsCombat(hlog.events[ev[c].index]) =>
                  /\ h'[field] = h[field] + 1
                  /\ OthersUnchanged(field)
            /\ Notifies(c) /\ IsCombat(hlog.events[ev[c].index]) =>
                  /\ LastNotified.session = ev[c].read + 1
                  /\ LastNotified.session = h[field]
                  /\ h' = h

\* C23: every killed-player event (code 170) raises the session kill counter by
\* exactly one and emits exactly one "kill" event with the new counter value, every
\* died event (code 171) does the same for the death counter with a "death" event;
\* no other session counter changes.
C23_KillAndDeathCounted == [](C23_Inv) /\ [][C23_Step]_vars

\* the steps of the OnEvent call that handles a balance update
MoneyStep(c) ==
    /\ ev'[c] # ev[c]
    /\ ev[c].code = EventUpdateMoney \/ ev'[c].code = EventUpdateMoney

C24_Inv ==
    \A i \in DOMAIN hlog.events :
        hlog.events[i].code = EventUpdateMoney => NotifiedFor(i) = {}

C24_Step ==
    \A c \in Threads :
        MoneyStep(c) =>
            /\ h' = h
            /\ hlog'.notified = hlog.notified
            /\ eventsChan' = eventsChan
            /\ stats' = stats

C25_CodeFromParameter ==
    \A i \in DOMAIN hlog.events :
        LET e == hlog.events[i]
        IN  IF ParamEventCode \in DOMAIN e.params
            THEN e.params[ParamEventCode].type \in {"int16", "int32", "int64"}
                    => e.code = e.params[ParamEventCode].v
            ELSE e.code = e.eventCode

\* ------------------------------------------------------------ claims about ParsePacket
\* no goroutine is inside ParsePacket
NoneParsing == \A t \in Threads : th[t].pc = "idle"

\* a ParsePacket call returns in this step; LastPacket is its record in the history
Returns == Len(hlog'.packets) = Len(hlog.packets) + 1
LastPacket == hlog'.packets[Len(hlog'.packets)]

\* C26: every call of ParsePacket advances packets_received by exactly 1, whatever the
\* payload: between calls the counter equals the number of calls made.
C26_PacketsReceivedCounted == NoneParsing => stats.PacketsReceived = parsed

\* C27: for a payload shorter than 12 bytes packets_malformed grows by 1 and no
\* message goes to the handler.
C27_ShortPayloadMalformed ==
    [][Returns /\ Len(LastPacket.payload) < PhotonHeaderLength =>
          /\ stats'.PacketsMalformed = stats.PacketsMalformed + 1
          /\ LastPacket.calls = <<>>]_vars

\* the callbacks of one payload follow the wire: each is caused by a later command,
\* at a higher offset, than the one before it
InWireOrder(calls) ==
    \A j, k \in DOMAIN calls :
        j < k => /\ calls[j].command < calls[k].command
                 /\ calls[j].offset < calls[k].offset

\* one callback has returned before the next is made: callbacks are only added at the
\* end of those made so far, by the command the loop is at
IsPrefix(a, b) == Len(a) <= Len(b) /\ SubSeq(b, 1, Len(a)) = a

C28_Inv ==
    /\ \A t \in Threads : InWireOrder(th[t].calls)
    /\ \A n \in DOMAIN hlog.packets : InWireOrder(hlog.packets[n].calls)

C28_Step ==
    \A t \in Threads :
        /\ th[t].pc # "idle" /\ th'[t].pc # "idle" =>
              /\ IsPrefix(th[t].calls, th'[t].calls)
              /\ \A k \in DOMAIN th'[t].calls \ DOMAIN th[t].calls :
                    th'[t].calls[k].command = th[t].i
        /\ th[t].pc # "idle" /\ th'[t].pc = "idle" /\ Returns =>
              LastPacket.calls = th[t].calls

\* C28: within one payload the commands are processed in wire order: the callback
\* caused by command i has returned before the callback caused by a later command
\* j begins.
C28_WireOrder == [](C28_Inv) /\ [][C28_Step]_vars

\* a payload of two commands made two callbacks, the request before the response
C28_Witness ==
    \E n \in DOMAIN hlog.packets :
        /\ Len(hlog.packets[n].calls) = 2
        /\ hlog.packets[n].calls[1].kind = "request"
        /\ hlog.packets[n].calls[2].kind = "response"

\* the command loop of a goroutine stands at a disconnect command
AtDisconnect(l) ==
    /\ l.pc = "loop"
    /\ l.i < At(l.payload, 3)
    /\ l.offset + CommandHeaderLength <= Len(l.payload)
    /\ CommandType(l.payload, l.offset) = CommandTypeDisconnect

C29_Step ==
    \A t \in Threads :
        AtDisconnect(th[t]) /\ th'[t] # th[t] =>
            /\ th'[t] = Idle
            /\ Returns
            /\ LastPacket.calls = th[t].calls
            /\ pendingFragments' = pendingFragments
            /\ entryLog' = entryLog

\* a payload whose first command is a disconnect
DisconnectFirst(p) ==
    /\ Len(p) >= PhotonHeaderLength + CommandHeaderLength
    /\ At(p, 2) = 0
    /\ At(p, 3) > 0
    /\ CommandType(p, PhotonHeaderLength) = CommandTypeDisconnect

C29_Inv ==
    \A n \in DOMAIN hlog.packets :
        DisconnectFirst(hlog.packets[n].payload) => hlog.packets[n].calls = <<>>

\* C29: at a disconnect command (type 4) ParsePacket returns at once and the rest of
\* the payload is dropped: no later command dispatches a message or creates or
\* changes a fragment entry.
C29_DisconnectDropsRest == [](C29_Inv) /\ [][C29_Step]_vars

\* the payload with a disconnect followed by a reliable command carrying an event
\* was parsed, and no callback was made for it
C29_Witness ==
    \E n \in DOMAIN hlog.packets :
        /\ DisconnectFirst(hlog.packets[n].payload)
        /\ Len(hlog.packets[n].payload)
              > PhotonHeaderLength + CommandHeaderLength + CommandHeaderLength
        /\ hlog.packets[n].calls = <<>>

\* the bytes an operation that returned consumed: the count it was asked for, the
\* width of the value it read, or the length prefix and the body of the string
Consumed(l) ==
    CASE l.op \in {"Skip", "ReadBytes"} -> l.n
      [] l.op \in {"ReadByte", "ReadBool"} -> 1
      [] l.op = "ReadUint16" -> 2
      [] l.op = "ReadUint32" -> 4
      [] l.op = "ReadString" -> 2 + Len(l.value)

\* a step that is one call of a reading or skipping operation
Consumes == rlog'.count = rlog.count + 1 /\ rlog'.op # "Seek"

\* C30: every BufferReader operation either succeeds and advances the cursor by
\* exactly the consumed byte count, or fails with the underflow error and leaves the
\* cursor unchanged; read_string's length prefix and body are one operation.
C30_Step ==
    Consumes =>
        \/ rlog'.err = "nil" /\ reader'.offset = reader.offset + Consumed(rlog')
        \/ rlog'.err = ErrBufferUnderflow /\ reader'.offset = reader.offset
C30_CursorAdvancesOrStays == [][C30_Step]_vars

\* C31: no BufferReader operation panics, in any reader state a sequence of operations
\* reaches and for any integer argument, negative and oversized ones included.
C31_ReaderNeverPanics == rlog.err # "panic"

\* the last call decoded a boolean and had a byte to decode
DecodedBoolean == decoded.paramType = TypeBoolean /\ decoded.data # <<>>

\* C32: a Protocol16 boolean byte decodes to true when it is non-zero, 0xFF included,
\* and to false only when it is 0x00.
C32_NonZeroIsTrue ==
    DecodedBoolean => decoded.value = BoolVal(At(decoded.data, 0) # 0)

\* the last call decoded a dictionary whose header is whole and declares a byte key
\* and a one-byte value for every entry, so that an entry is two bytes
DecodedDictionary ==
    /\ decoded.paramType \in {TypeDictionary, TypeHashtable}
    /\ Len(decoded.data) >= 4
    /\ At(decoded.data, 0) = TypeByte
    /\ At(decoded.data, 1) \in {TypeByte, TypeBoolean}

\* N, the declared length, and K, the entries the data holds completely
DeclaredEntries == Uint16(decoded.data, 2)
CompleteEntries ==
    IF (Len(decoded.data) - 4) \div 2 < DeclaredEntries
    THEN (Len(decoded.data) - 4) \div 2
    ELSE DeclaredEntries

\* C33: a dictionary declared with length N but truncated at entry K < N yields a map
\* of the K pairs that were read completely and of nothing else.
C33_TruncatedDictionary ==
    DecodedDictionary =>
        /\ decoded.value.type = "map"
        /\ DOMAIN decoded.value.v
              = {ByteVal(At(decoded.data, 4 + 2 * (i - 1))) : i \in 1..CompleteEntries}

\* C34: a reassembled payload is delivered only when every byte position in
\* [0, total length) of its buffer has been written by an accepted fragment.
C34_NoGapsDelivered ==
    \A t \in Threads :
        th[t].pc = "deliver" =>
            entryLog[th[t].frag.id].written = 0..(Len(th[t].frag.payload) - 1)

\* C35: no goroutine sends on the Events, Stats or OnlineStatus channel after Stop has
\* closed it, however Stop interleaves with the capture goroutines, the online status
\* checker and the stats updater of the Start it stops.
C35_NoSendAfterClose ==
    svc.starts = 1 => svc.panic # "send on closed channel"

\* C36: over any sequence of Start and Stop calls on one Service no channel is closed
\* more than once and every Stop returns normally.
C36_StopReturnsNormally == svc.panic # "close of closed channel"

\* once every call has returned, session fame is the sum of the gains notified
C37_Inv == Quiescent => h.sessionFame = SumAmounts(hlog.notified, "fame")

\* a "fame" event carries the session fame its own update produced: what the call
\* read plus what it added
C37_Step ==
    \A c \in Threads :
        Notifies(c) /\ ev[c].eventType = "fame" =>
            LastNotified.session = ev[c].read + ev[c].amount

\* C37: after any sequence of experience-point events session fame equals the sum of
\* the gained values of all "fame" events emitted so far, and the session field of each
\* "fame" event equals session fame immediately after that event was applied.
C37_SessionFameIsSumOfGains == [](C37_Inv) /\ [][C37_Step]_vars

\* the sweeper has handled every tick so far: none waits in ticker.C and no sweep is
\* under way
Swept == tickerC = 0 /\ pcSweeper \in {"select", "stopped"}

\* the entries still in the store one sweep interval after they reached the TTL
Overdue ==
    {k \in DOMAIN pendingFragments :
        now - pendingFragments[k].createdAt >= FragmentTTL + FragmentCleanupInterval}

C39_Step ==
    \A t \in Threads :
        (th[t].pc # "idle" /\ th'[t].pc # "idle") =>
            /\ th'[t].offset >= th[t].offset
            /\ th'[t].offset <= Len(th'[t].payload)
            /\ (th[t].pc = "loop" /\ th'[t] # th[t]) =>
                   th'[t].offset >= th[t].offset + CommandHeaderLength

C39_OffsetAdvances == [][C39_Step]_vars


\* ------------------------------------------------------------ C40
\* C40: the fragment-store lock is released on every path through the fragment
\* handler and is not held while a handler callback runs: a capture goroutine that
\* holds the lock is between the Lock and the Unlock of handleSendFragment and
\* still running, so whoever waits for the lock (a handler that calls back into
\* the parser, the sweeper) gets it
C40_LockReleased ==
    \A t \in Threads :
        fragmentsMu = t => (th[t].pc = "locked" /\ panicked = "none")

====
